---- MODULE Spec2Model ----
(***************************************************************************)
(* Order lifecycle of xiangyee-backend (routes/orders.routes.js): the      *)
(* createOrder transaction with the daily sequence counter, the status     *)
(* operations markCollected and updateStatus, and the SSE fan-out to admin *)
(* and per-order observers.                                                *)
(*                                                                         *)
(* The store is PostgreSQL at READ COMMITTED: a statement sent through     *)
(* pool.query autocommits, the statements of one client between BEGIN and  *)
(* COMMIT become visible to the others together at COMMIT, and the         *)
(* INSERT .. ON CONFLICT DO UPDATE of one seq_date row waits for the       *)
(* transaction that holds that row.  Every await of a handler is one step  *)
(* of the model; the synchronous code after it belongs to the same step.   *)
(* Money is counted in cents.                                              *)
(***************************************************************************)
EXTENDS Integers, Sequences, FiniteSets, TLC

\* ------------------------------------------------------------- bounds
NumCreators == 2
MaxRequests == 3
MaxOrders == 2
MaxItems == 2
MaxDate == 2
MaxMenuEdits == 1
MaxPings == 1
NumUpdaters == 2
NumCollectors == 2
NumSubs == 2
NumAdmins == 2
BusyDay == 998

Creators == {<<"create", i>> : i \in 1..NumCreators}
Updaters == {<<"update", i>> : i \in 1..NumUpdaters}
Collectors == {<<"collect", i>> : i \in 1..NumCollectors}
CustChans == {<<"cust", i>> : i \in 1..NumSubs}
AdminChans == {<<"admin", i>> : i \in 1..NumAdmins}
Chans == CustChans \cup AdminChans
Rids == 1..(MaxRequests + NumUpdaters + NumCollectors)
\* the identity of a request (history): creations are numbered as they are
\* accepted, each status handler serves one request
RidOf(p) == IF p[1] = "update" THEN MaxRequests + p[2]
            ELSE MaxRequests + NumUpdaters + p[2]
Dates == 1..MaxDate
MenuIds == {1, 2}
PriceValues == {338, 500}
Phones == {"555"}
OrderIds == 1..MaxRequests

\* the bodies a validated POST / can carry (OrderSchema: items .min(1))
\* menu item 1 is asked for twice, menu item 2 once
ItemSpace == {[menu_item_id |-> 1, quantity |-> 2], [menu_item_id |-> 2, quantity |-> 1]}
ItemLists == UNION {[1..n -> ItemSpace] : n \in 1..MaxItems}
\* the bodies with one item
SingleItemLists == {<<it>> : it \in ItemSpace}

VARIABLES
    today,            \* the store's calendar date (CURRENT_DATE, NOW())
    menu_items,       \* table menu_items: id -> [price, is_available]
    orders,           \* table orders, committed rows: id -> row
    order_items,      \* table order_items, committed rows: order id -> rows by oi.id
    daily_order_seq,  \* table daily_order_seq, committed: seq_date -> last_seq (0: no row)
    seqLock,          \* the transaction holding the row lock of each seq_date
    orders_id_seq,    \* the serial behind orders.id (not transactional)
    cr,               \* POST / handlers
    rd,               \* a GET /:id reader (fetchOrderWithItems)
    us,               \* PUT /:id handlers (admin updateStatus)
    mc,               \* POST /:id/collected handlers (markCollected)
    sub,              \* GET /:id/stream connections (customer observers)
    adm,              \* GET /stream connections (admin observers)
    sseClients,       \* the admin registry: a set of connections
    orderSseClients,  \* the per-order registry: order id -> set of connections
    inbox,            \* what has been written to each connection, in order
    nextReq,          \* requests accepted so far + 1 (identity of a request)
    menuEdits,        \* catalog edits made so far
    published,        \* history: rid -> calls of broadcast and of sendToOrder made,
                      \* and the writes of those calls that failed
    reservations,     \* table reservations: the rows in the order of their ids
    rs,               \* POST /api/reservations handlers
    pt                \* the PATCH /api/reservations/:id/status handler

dbVars == <<today, menu_items, menuEdits, orders, order_items, daily_order_seq, seqLock,
           orders_id_seq>>
obsVars == <<sub, adm, sseClients, orderSseClients, inbox>>
resVars == <<reservations, rs, pt>>
vars == <<today, menu_items, menuEdits, orders, order_items, daily_order_seq, seqLock,
          orders_id_seq, cr, rd, us, mc, sub, adm, sseClients, orderSseClients,
          inbox, nextReq, published, reservations, rs, pt>>

NoProc == <<"none", 0>>

\* ------------------------------------------------------------ helpers
RECURSIVE SumLineTotals(_)
\* the sum of the stored line_total of rows, in cents
SumLineTotals(rows) ==
    IF rows = <<>> THEN 0
    ELSE Head(rows).line_total + SumLineTotals(Tail(rows))

RECURSIVE ToDigits(_)
\* String(seq): the decimal digits of a positive integer
ToDigits(n) == IF n < 10 THEN <<n>> ELSE ToDigits(n \div 10) \o <<n % 10>>

RECURSIVE PadStart(_, _, _)
\* str.padStart(len, fill): pads on the left up to len, never truncates
PadStart(str, len, fill) ==
    IF Len(str) >= len THEN str ELSE PadStart(<<fill>> \o str, len, fill)

\* `${ymd}-${String(seq).padStart(3, "0")}`
OrderNo(ymd, seq) == [ymd |-> ymd, nnn |-> PadStart(ToDigits(seq), 3, 0)]

\* ------------------------------------------- JavaScript numbers (binary64)
\* A natural number of any size: its digits in base 2^13, least significant
\* first, no leading zero digit (<<>> is 0).
Base == 2^13

RECURSIVE Trim(_)
Trim(a) == IF a # <<>> /\ a[Len(a)] = 0 THEN Trim(SubSeq(a, 1, Len(a) - 1)) ELSE a

RECURSIVE BigOf(_)
BigOf(n) == IF n = 0 THEN <<>> ELSE <<n % Base>> \o BigOf(n \div Base)

RECURSIVE ToInt(_)
ToInt(a) == IF a = <<>> THEN 0 ELSE Head(a) + Base * ToInt(Tail(a))

RECURSIVE BigAddC(_, _, _)
BigAddC(a, b, c) ==
    IF a = <<>> /\ b = <<>> THEN BigOf(c)
    ELSE LET x == (IF a = <<>> THEN 0 ELSE Head(a)) + (IF b = <<>> THEN 0 ELSE Head(b)) + c
         IN <<x % Base>> \o BigAddC(IF a = <<>> THEN <<>> ELSE Tail(a),
                                    IF b = <<>> THEN <<>> ELSE Tail(b), x \div Base)

BigAdd(a, b) == BigAddC(a, b, 0)

RECURSIVE BigMulC(_, _, _)
BigMulC(a, k, c) ==
    IF a = <<>> THEN BigOf(c)
    ELSE LET x == Head(a) * k + c
         IN <<x % Base>> \o BigMulC(Tail(a), k, x \div Base)

\* a * k, k < 2^17
BigMul(a, k) == Trim(BigMulC(a, k, 0))

RECURSIVE BigDivFrom(_, _, _, _)
BigDivFrom(a, k, i, r) ==
    IF i = 0 THEN [q |-> <<>>, r |-> r]
    ELSE LET x == r * Base + a[i]
             rest == BigDivFrom(a, k, i - 1, x % k)
         IN [q |-> Append(rest.q, x \div k), r |-> rest.r]

\* quotient and remainder of a by k, k <= 2^17
BigDivMod(a, k) ==
    LET d == BigDivFrom(a, k, Len(a), 0) IN [q |-> Trim(d.q), r |-> d.r]

RECURSIVE BigShl(_, _)
\* a * 2^n
BigShl(a, n) ==
    IF a = <<>> \/ n = 0 THEN a
    ELSE IF n >= 13 THEN <<0>> \o BigShl(a, n - 13)
    ELSE BigMul(a, 2^n)

RECURSIVE BigShr(_, _)
\* a \div 2^n
BigShr(a, n) ==
    IF a = <<>> \/ n = 0 THEN a
    ELSE IF n >= 13 THEN BigShr(Tail(a), n - 13)
    ELSE BigDivMod(a, 2^n).q

IntBitLen(n) == Cardinality({j \in 0..30 : 2^j <= n})
BitLen(a) == IF a = <<>> THEN 0 ELSE 13 * (Len(a) - 1) + IntBitLen(a[Len(a)])

\* A number is m * 2^e with m of MantissaBits bits (0: m = <<>>, e = 0).
MantissaBits == 53
Zero == [m |-> <<>>, e |-> 0]

\* the number nearest to big * 2^e, ties to even; inexact says that the
\* value is a little more than big * 2^e (less than one unit of big more)
RoundToNumber(big, e, inexact) ==
    IF big = <<>> THEN Zero
    ELSE LET n == BitLen(big)
         IN IF n <= MantissaBits
            THEN [m |-> BigShl(big, MantissaBits - n), e |-> e - (MantissaBits - n)]
            ELSE LET s == n - MantissaBits
                     d == BigDivMod(big, 2^s)
                     half == 2^(s - 1)
                     up == \/ d.r > half
                           \/ d.r = half /\ (inexact \/ d.q[1] % 2 = 1)
                     q == IF up THEN BigAdd(d.q, <<1>>) ELSE d.q
                 IN IF BitLen(q) > MantissaBits
                    THEN [m |-> BigDivMod(q, 2).q, e |-> e + s + 1]
                    ELSE [m |-> q, e |-> e + s]

\* Number("d.dd"): the number nearest to cents / 100
Number(cents) ==
    IF cents = 0 THEN Zero
    ELSE LET k == MantissaBits + 8 - IntBitLen(cents)
             d == BigDivMod(BigShl(BigOf(cents), k), 100)
         IN RoundToNumber(d.q, 0 - k, d.r # 0)

\* x * q for an integer q < 2^17: the exact product, rounded once
JSMul(x, q) == RoundToNumber(BigMul(x.m, q), x.e, FALSE)

\* x + y: the exact sum, rounded once
JSAdd(x, y) ==
    IF x.m = <<>> THEN y
    ELSE IF y.m = <<>> THEN x
    ELSE LET e == IF x.e < y.e THEN x.e ELSE y.e
         IN RoundToNumber(BigAdd(BigShl(x.m, x.e - e), BigShl(y.m, y.e - e)), e, FALSE)

\* a number bound to a DECIMAL(10,2) column: the store rounds its decimal
\* text to two places, half away from zero (amounts are farther than a unit
\* of m from a half cent, so rounding the exact value gives the same cents)
ToDecimal2(x) ==
    IF x.m = <<>> THEN 0
    ELSE LET h == BigMul(x.m, 100)
             twice == IF x.e + 1 >= 0 THEN ToInt(BigShl(h, x.e + 1))
                      ELSE ToInt(BigShr(h, 0 - (x.e + 1)))
         IN (twice + 1) \div 2


\* ----------------------------------------------------- POST / (create)
IdleCr == [pc |-> "idle", rid |-> 0, ymd |-> 0, seq |-> 0, orderId |-> 0,
           phone |-> "", order_type |-> "takeaway", items |-> <<>>, raw |-> <<>>,
           i |-> 1, total |-> Zero,
           pendOrder |-> <<>>, pendItems |-> <<>>,
           resp |-> 0, body |-> <<>>, failedAt |-> "", snap |-> <<>>]

InTx == {"begin", "seq", "items", "total"}

\* the rows of table orders another connection's statement sees, with the
\* uncommitted inserts of open transactions added
DirtyOrders ==
    LET open == {p \in Creators : cr[p].pendOrder # <<>>}
    IN [id \in DOMAIN orders \cup {cr[p].orderId : p \in open} |->
          IF id \in DOMAIN orders THEN orders[id]
          ELSE cr[CHOOSE p \in open : cr[p].orderId = id].pendOrder[1]]

\* the rows of table orders another connection's statement sees (READ
\* COMMITTED): committed rows only
VisibleOrders == orders

\* lines 18-20 of fetchOrderWithItems, and the SELECT of markCollected
SelectOrder(id) ==
    IF id \in DOMAIN VisibleOrders THEN <<VisibleOrders[id]>> ELSE <<>>

SelectItemsNone(id) == <<>>

\* lines 22-34 of fetchOrderWithItems: the rows of one order by oi.id; the
\* inner join with menu_items drops none (menu rows are never deleted)
SelectItems(id) ==
    IF id \in DOMAIN order_items THEN order_items[id] ELSE <<>>

\* line 36: { ...order, items }
Snapshot(row, items) == [order |-> row, items |-> items]

\* lines 190-202: body validated, client taken from the pool, BEGIN
CreateRequest(p, bodies, maxReq) ==
    /\ cr[p].pc \in {"idle", "done"}
    /\ nextReq <= maxReq
    /\ \E its \in bodies, ph \in Phones :
         cr' = [cr EXCEPT ![p] = [IdleCr EXCEPT !.pc = "begin", !.rid = nextReq,
                                     !.ymd = today, !.items = its, !.phone = ph]]
    /\ nextReq' = nextReq + 1
    /\ UNCHANGED <<resVars, dbVars, rd, us, mc, obsVars, published>>

\* a JSON number of a request body, as the fraction num/den
Num(n, d) == [num |-> n, den |-> d]

\* Number.isInteger, the test of z.number().int()
IsInteger(x) == x.num % x.den = 0

\* the value of an integer JSON number
IntValue(x) == x.num \div x.den

\* x >= n for a JSON number x
AtLeast(x, n) == x.num >= n * x.den

\* String.prototype.length on the strings a request body can hold
length(str) ==
    CASE str = "" -> 0
      [] str = "55" -> 2
      [] OTHER -> 3

\* request bodies: order_type is <<>> when the key is absent
RawNames == {"", "Ann"}
RawPhones == {"55", "555"}
RawTypes == {<<>>, <<"takeaway">>, <<"dine_in">>, <<"delivery">>}
RawItemLists ==
    { <<>>,
      <<[menu_item_id |-> Num(1, 1), quantity |-> Num(2, 1)]>>,
      <<[menu_item_id |-> Num(1, 1), quantity |-> Num(0, 1)]>>,
      <<[menu_item_id |-> Num(1, 1), quantity |-> Num(3, 2)]>>,
      <<[menu_item_id |-> Num(1, 1), quantity |-> Num(1, 1)],
        [menu_item_id |-> Num(2, 1), quantity |-> Num(0, 1)]>> }
RawBodies ==
    [customer_name : RawNames, customer_phone : RawPhones,
     order_type : RawTypes, items : RawItemLists]

QuantityOkLax(x) == IsInteger(x)

\* line 176: quantity: z.number().int().min(1)
QuantityOk(x) == IsInteger(x) /\ AtLeast(x, 1)

\* lines 165-179, 191: OrderSchema.safeParse(req.body)
safeParse(body) ==
    LET okItem(it) == IsInteger(it.menu_item_id) /\ QuantityOk(it.quantity)
        success ==
            /\ length(body.customer_name) >= 1
            /\ length(body.customer_phone) >= 3
            /\ body.order_type = <<>> \/ body.order_type[1] \in {"dine_in", "takeaway"}
            /\ Len(body.items) >= 1
            /\ \A i \in 1..Len(body.items) : okItem(body.items[i])
    IN [success |-> success,
        data |-> IF ~success THEN <<>>
                 ELSE <<[customer_name |-> body.customer_name,
                         customer_phone |-> body.customer_phone,
                         order_type |-> IF body.order_type = <<>> THEN "takeaway"
                                        ELSE body.order_type[1],
                         items |-> [i \in 1..Len(body.items) |->
                                      [menu_item_id |-> IntValue(body.items[i].menu_item_id),
                                       quantity |-> IntValue(body.items[i].quantity)]]]>>]

\* lines 190-202 from the request body: safeParse, 400 on failure, else the
\* client is taken from the pool and BEGIN is sent; raw is history
CreateParse(p, bodies, maxReq) ==
    /\ cr[p].pc \in {"idle", "done"}
    /\ nextReq <= maxReq
    /\ \E body \in bodies :
         LET parsed == safeParse(body)
         IN cr' = [cr EXCEPT ![p] =
                     IF ~parsed.success
                     THEN [IdleCr EXCEPT !.pc = "done", !.rid = nextReq, !.raw = <<body>>,
                                         !.resp = 400, !.failedAt = "validation"]
                     ELSE [IdleCr EXCEPT !.pc = "begin", !.rid = nextReq, !.raw = <<body>>,
                                         !.ymd = today,
                                         !.items = parsed.data[1].items,
                                         !.phone = parsed.data[1].customer_phone,
                                         !.order_type = parsed.data[1].order_type]]
    /\ nextReq' = nextReq + 1
    /\ UNCHANGED <<resVars, dbVars, rd, us, mc, obsVars, published>>

CanUpsertUnlocked(p) == TRUE

\* the upsert waits while another transaction holds the seq_date row
CanUpsert(p) == seqLock[cr[p].ymd] = NoProc

\* lines 204-215: INSERT .. ON CONFLICT DO UPDATE .. RETURNING last_seq
SeqUpsert(p) ==
    /\ cr[p].pc = "begin"
    /\ CanUpsert(p)
    /\ seqLock' = [seqLock EXCEPT ![cr[p].ymd] = p]
    /\ cr' = [cr EXCEPT ![p].pc = "seq",
                        ![p].seq = daily_order_seq[cr[p].ymd] + 1]
    /\ UNCHANGED <<resVars, today, menu_items, menuEdits, orders, order_items, daily_order_seq,
                   orders_id_seq, rd, us, mc, obsVars, nextReq, published>>

OrderInsertAtWallClock(p) ==
    /\ cr[p].pc = "seq"
    /\ orders_id_seq' = orders_id_seq + 1
    /\ cr' = [cr EXCEPT ![p].pc = "items",
                        ![p].orderId = orders_id_seq,
                        ![p].i = 1,
                        ![p].total = Zero,
                        ![p].pendOrder =
                            <<[id |-> orders_id_seq,
                               order_no |-> OrderNo(today, cr[p].seq),
                               customer_phone |-> cr[p].phone,
                               order_type |-> cr[p].order_type,
                               status |-> "pending",
                               total_amount |-> 0,
                               rid |-> cr[p].rid,
                               req |-> cr[p].items,
                               writers |-> {cr[p].rid}]>>]
    /\ UNCHANGED <<resVars, today, menu_items, menuEdits, orders, order_items, daily_order_seq,
                   seqLock, rd, us, mc, obsVars, nextReq, published>>

\* lines 217-240: order_no, INSERT INTO orders (.., total_amount) VALUES (.., 0)
\* RETURNING id; rid, req and writers are history: the request that made the
\* row, the items it asked for, the requests whose write the row holds
OrderInsert(p) ==
    /\ cr[p].pc = "seq"
    /\ orders_id_seq' = orders_id_seq + 1
    /\ cr' = [cr EXCEPT ![p].pc = "items",
                        ![p].orderId = orders_id_seq,
                        ![p].i = 1,
                        ![p].total = Zero,
                        ![p].pendOrder =
                            <<[id |-> orders_id_seq,
                               order_no |-> OrderNo(cr[p].ymd, cr[p].seq),
                               customer_phone |-> cr[p].phone,
                               order_type |-> cr[p].order_type,
                               status |-> "pending",
                               total_amount |-> 0,
                               rid |-> cr[p].rid,
                               req |-> cr[p].items,
                               writers |-> {cr[p].rid}]>>]
    /\ UNCHANGED <<resVars, today, menu_items, menuEdits, orders, order_items, daily_order_seq,
                   seqLock, rd, us, mc, obsVars, nextReq, published>>

\* line 259: lineTotal = unitPrice * it.quantity
LineTotal(unitPrice, quantity) == JSMul(unitPrice, quantity)

\* lines 262-270: the order_items row of one request item; the two numbers
\* are bound to DECIMAL(10,2) columns
ItemRow(orderId, it, unitPrice, lineTotal) ==
    [order_id |-> orderId, menu_item_id |-> it.menu_item_id,
     quantity |-> it.quantity, unit_price |-> ToDecimal2(unitPrice),
     line_total |-> ToDecimal2(lineTotal)]

\* COMMIT: the transaction's rows and its counter value become visible
CommitTx(p) ==
    /\ orders' = (cr[p].orderId :> cr[p].pendOrder[1]) @@ orders
    /\ order_items' = (cr[p].orderId :> cr[p].pendItems) @@ order_items
    /\ daily_order_seq' = [daily_order_seq EXCEPT ![cr[p].ymd] = cr[p].seq]
    /\ seqLock' = [seqLock EXCEPT ![cr[p].ymd] = NoProc]

\* what the statements leave behind when they ran outside a transaction
RollbackAsAutocommit(p) ==
    /\ orders' = IF cr[p].pendOrder = <<>> THEN orders
                 ELSE (cr[p].orderId :> cr[p].pendOrder[1]) @@ orders
    /\ order_items' = IF cr[p].pendOrder = <<>> THEN order_items
                      ELSE (cr[p].orderId :> cr[p].pendItems) @@ order_items
    /\ daily_order_seq' = IF seqLock[cr[p].ymd] = p
                          THEN [daily_order_seq EXCEPT ![cr[p].ymd] = cr[p].seq]
                          ELSE daily_order_seq
    /\ seqLock' = [d \in Dates |-> IF seqLock[d] = p THEN NoProc ELSE seqLock[d]]

RollbackKeepsCounter(p) ==
    /\ UNCHANGED <<orders, order_items>>
    /\ daily_order_seq' = IF seqLock[cr[p].ymd] = p
                          THEN [daily_order_seq EXCEPT ![cr[p].ymd] = cr[p].seq]
                          ELSE daily_order_seq
    /\ seqLock' = [d \in Dates |-> IF seqLock[d] = p THEN NoProc ELSE seqLock[d]]

\* ROLLBACK: nothing of the transaction stays, its row lock is released
RollbackTx(p) ==
    /\ UNCHANGED <<orders, order_items, daily_order_seq>>
    /\ seqLock' = [d \in Dates |-> IF seqLock[d] = p THEN NoProc ELSE seqLock[d]]

\* what a finished handler keeps: its response (and, as history, its request,
\* its order id and how far its item loop came)
Finished(c, code, body, at) ==
    [IdleCr EXCEPT !.pc = "done", !.rid = c.rid, !.orderId = c.orderId, !.i = c.i,
                   !.raw = c.raw,
                   !.resp = code, !.body = body, !.failedAt = at]

\* lines 301-308: catch: ROLLBACK, then 400 with the error's message
CreateCatch(p, at) ==
    /\ RollbackTx(p)
    /\ cr' = [cr EXCEPT ![p] = Finished(cr[p], 400, <<>>, at)]

\* lines 244-271: one turn of the item loop: price lookup, then the insert
ItemStep(p) ==
    /\ cr[p].pc = "items"
    /\ cr[p].i <= Len(cr[p].items)
    /\ LET it == cr[p].items[cr[p].i]
           menuRes == IF /\ it.menu_item_id \in DOMAIN menu_items
                         /\ menu_items[it.menu_item_id].is_available
                      THEN <<menu_items[it.menu_item_id]>> ELSE <<>>
           menuItem == menuRes[1]
           unitPrice == Number(menuItem.price)
           lineTotal == LineTotal(unitPrice, it.quantity)
       IN IF menuRes # <<>>
          THEN /\ cr' = [cr EXCEPT ![p].i = @ + 1,
                                   ![p].total = JSAdd(@, lineTotal),
                                   ![p].pendItems =
                                       Append(@, ItemRow(cr[p].orderId, it,
                                                         unitPrice, lineTotal))]
               /\ UNCHANGED <<orders, order_items, daily_order_seq, seqLock>>
          ELSE CreateCatch(p, "menu")
    /\ UNCHANGED <<resVars, today, menu_items, menuEdits, orders_id_seq, rd, us, mc, obsVars, nextReq, published>>

\* lines 273-280: UPDATE orders SET total_amount = $1
TotalUpdate(p) ==
    /\ cr[p].pc = "items"
    /\ cr[p].i > Len(cr[p].items)
    /\ cr' = [cr EXCEPT ![p].pc = "total",
                        ![p].pendOrder = <<[@[1] EXCEPT !.total_amount = ToDecimal2(cr[p].total)]>>]
    /\ UNCHANGED <<resVars, dbVars, rd, us, mc, obsVars, nextReq, published>>

\* line 282: COMMIT
Commit(p) ==
    /\ cr[p].pc = "total"
    /\ CommitTx(p)
    /\ cr' = [cr EXCEPT ![p].pc = "committed",
                        ![p].pendOrder = <<>>, ![p].pendItems = <<>>]
    /\ UNCHANGED <<resVars, today, menu_items, menuEdits, orders_id_seq, rd, us, mc, obsVars, nextReq, published>>

\* a statement of the transaction, or its COMMIT, is refused by the store
CreateFail(p) ==
    /\ cr[p].pc \in InTx
    /\ CreateCatch(p, cr[p].pc)
    /\ UNCHANGED <<resVars, today, menu_items, menuEdits, orders_id_seq, rd, us, mc, obsVars, nextReq, published>>

\* --------------------------------------------------------- SSE fan-out
\* a write reaches the client while its connection is open
IsOpen(c) == IF c \in CustChans THEN ~sub[c].closed ELSE ~adm[c].closed

DeliverUntilFailure(targets, msg) ==
    inbox' = [c \in Chans |->
                IF c \in targets /\ \A t \in targets : IsOpen(t)
                THEN Append(inbox[c], msg) ELSE inbox[c]]

DeliverToUnregistered(targets, msg) ==
    inbox' = [c \in Chans |->
                IF IsOpen(c) /\ (c \in AdminChans <=> "action" \in DOMAIN msg)
                THEN Append(inbox[c], msg) ELSE inbox[c]]

\* res.write to every connection of targets; a write to a closed connection
\* delivers nothing and its error is swallowed (try/catch around each write)
Deliver(targets, msg) ==
    inbox' = [c \in Chans |->
                IF c \in targets /\ IsOpen(c) THEN Append(inbox[c], msg) ELSE inbox[c]]

\* the writes of one fan-out over targets that fail (history)
FailedWrites(targets) == Cardinality({c \in targets : ~IsOpen(c)})

broadcastTwice(rid, action, orderId, orderNo, status) ==
    LET msg == [event |-> "orders_updated", action |-> action, order_id |-> orderId,
                order_no |-> orderNo, status |-> status, rid |-> rid]
    IN /\ inbox' = [c \in Chans |->
                      IF c \in sseClients /\ IsOpen(c) THEN inbox[c] \o <<msg, msg>>
                      ELSE inbox[c]]
       /\ published' = [published EXCEPT ![rid].admin = @ + 1,
                                         ![rid].lost = @ + FailedWrites(sseClients)]

\* lines 102-110: broadcast("orders_updated", data) to every admin connection;
\* rid is history: the request that made the call
broadcast(rid, action, orderId, orderNo, status) ==
    /\ Deliver(sseClients, [event |-> "orders_updated", action |-> action,
                            order_id |-> orderId, order_no |-> orderNo,
                            status |-> status, rid |-> rid])
    /\ published' = [published EXCEPT ![rid].admin = @ + 1,
                                      ![rid].lost = @ + FailedWrites(sseClients)]

\* lines 51-59: sendToOrder(orderId, payload); no set under the key: return
sendToOrder(rid, orderId, payload) ==
    LET set == IF orderId \in DOMAIN orderSseClients THEN orderSseClients[orderId] ELSE {}
    IN /\ Deliver(set, [event |-> "message", data |-> payload, rid |-> rid, initial |-> FALSE])
       /\ published' = [published EXCEPT ![rid].order = @ + 1,
                                         ![rid].lost = @ + FailedWrites(set)]

CanBroadcastCreatedEarly(p) == cr[p].pc = "total"

\* line 285 runs once the COMMIT of line 282 has been answered
CanBroadcastCreated(p) == cr[p].pc = "committed"

\* lines 284-290: admin push "created"
CreateBroadcast(p) ==
    /\ CanBroadcastCreated(p)
    /\ broadcast(cr[p].rid, "created", cr[p].orderId,
                 OrderNo(cr[p].ymd, cr[p].seq), "")
    /\ cr' = [cr EXCEPT ![p].pc = "fetch1"]
    /\ UNCHANGED <<resVars, dbVars, rd, us, mc, sub, adm, sseClients, orderSseClients, nextReq>>

\* line 293, first query of fetchOrderWithItems
CreateFetch1(p) ==
    /\ cr[p].pc = "fetch1"
    /\ cr' = [cr EXCEPT ![p].pc = "fetch2", ![p].snap = SelectOrder(cr[p].orderId)]
    /\ UNCHANGED <<resVars, dbVars, rd, us, mc, obsVars, nextReq, published>>

\* lines 293-300: second query, customer push, 201 with the handler's total
CreateFetch2(p) ==
    /\ cr[p].pc = "fetch2"
    /\ LET body == [order_id |-> cr[p].orderId,
                    order_no |-> OrderNo(cr[p].ymd, cr[p].seq),
                    total_amount |-> cr[p].total]
       IN /\ cr' = [cr EXCEPT ![p] = Finished(cr[p], 201, <<body>>, "")]
          /\ IF cr[p].snap = <<>>
             THEN UNCHANGED <<inbox, published>>
             ELSE sendToOrder(cr[p].rid, cr[p].orderId,
                              Snapshot(cr[p].snap[1], SelectItems(cr[p].orderId)))
    /\ UNCHANGED <<resVars, dbVars, rd, us, mc, sub, adm, sseClients, orderSseClients, nextReq>>

\* a query of the post-commit fetch is refused: the catch of line 301 answers 400
CreatePostFail(p) ==
    /\ cr[p].pc \in {"fetch1", "fetch2"}
    /\ cr' = [cr EXCEPT ![p] = Finished(cr[p], 400, <<>>, "post_commit")]
    /\ UNCHANGED <<resVars, dbVars, rd, us, mc, obsVars, nextReq, published>>

\* ------------------------------------------------ PUT /:id (updateStatus)
AllowedWithCancelled == {"pending", "ready", "collected", "cancelled"}

\* line 469: allowed
Allowed == {"pending", "ready", "collected"}
StatusInputs == Allowed \cup {"cancelled"}

IdleUs == [pc |-> "idle", rid |-> 0, id |-> 0, status |-> "", snap |-> <<>>, resp |-> 0]

\* lines 464-481: the status is validated and the UPDATE is sent
USRequest(u, ids, statuses) ==
    /\ us[u].pc = "idle"
    /\ \E id \in ids, st \in statuses :
         us' = [us EXCEPT ![u] =
                  IF st \in Allowed
                  THEN [IdleUs EXCEPT !.pc = "update", !.rid = RidOf(u), !.id = id, !.status = st]
                  ELSE [IdleUs EXCEPT !.pc = "done", !.rid = RidOf(u), !.id = id,
                                      !.status = st, !.resp = 400]]
    /\ UNCHANGED <<resVars, dbVars, cr, rd, mc, obsVars, nextReq, published>>

USUpdateForwardOnly(u) ==
    /\ us[u].pc = "update"
    /\ IF /\ us[u].id \in DOMAIN orders
          /\ LET Rank(st) == IF st = "pending" THEN 1 ELSE IF st = "ready" THEN 2 ELSE 3
             IN Rank(orders[us[u].id].status) <= Rank(us[u].status)
       THEN /\ orders' = [orders EXCEPT ![us[u].id].status = us[u].status,
                                        ![us[u].id].writers = @ \cup {us[u].rid}]
            /\ us' = [us EXCEPT ![u].pc = "bcast"]
       ELSE /\ UNCHANGED orders
            /\ us' = [us EXCEPT ![u].pc = "done", ![u].resp = 404]
    /\ UNCHANGED <<resVars, today, menu_items, menuEdits, order_items, daily_order_seq, seqLock,
                   orders_id_seq, cr, rd, mc, obsVars, nextReq, published>>

USUpdateBroadcastsOnMiss(u) ==
    /\ us[u].pc = "update"
    /\ orders' = IF us[u].id \in DOMAIN orders
                 THEN [orders EXCEPT ![us[u].id].status = us[u].status,
                                     ![us[u].id].writers = @ \cup {us[u].rid}]
                 ELSE orders
    /\ us' = [us EXCEPT ![u].pc = "bcast"]
    /\ UNCHANGED <<resVars, today, menu_items, menuEdits, order_items, daily_order_seq, seqLock,
                   orders_id_seq, cr, rd, mc, obsVars, nextReq, published>>

\* lines 474-485: UPDATE orders SET status = $1 WHERE id = $2 (autocommit);
\* rowCount 0: 404
USUpdate(u) ==
    /\ us[u].pc = "update"
    /\ IF us[u].id \in DOMAIN orders
       THEN /\ orders' = [orders EXCEPT ![us[u].id].status = us[u].status,
                                        ![us[u].id].writers = @ \cup {us[u].rid}]
            /\ us' = [us EXCEPT ![u].pc = "bcast"]
       ELSE /\ UNCHANGED orders
            /\ us' = [us EXCEPT ![u].pc = "done", ![u].resp = 404]
    /\ UNCHANGED <<resVars, today, menu_items, menuEdits, order_items, daily_order_seq, seqLock,
                   orders_id_seq, cr, rd, mc, obsVars, nextReq, published>>

\* lines 487-493: admin push "status_updated"
USBroadcast(u) ==
    /\ us[u].pc = "bcast"
    /\ broadcast(us[u].rid, "status_updated", us[u].id, <<>>, us[u].status)
    /\ us' = [us EXCEPT ![u].pc = "fetch1"]
    /\ UNCHANGED <<resVars, dbVars, cr, rd, mc, sub, adm, sseClients, orderSseClients, nextReq>>

\* line 496, first query of fetchOrderWithItems
USFetch1(u) ==
    /\ us[u].pc = "fetch1"
    /\ us' = [us EXCEPT ![u].pc = "fetch2", ![u].snap = SelectOrder(us[u].id)]
    /\ UNCHANGED <<resVars, dbVars, cr, rd, mc, obsVars, nextReq, published>>

\* lines 496-499: second query, customer push, 200
USFetch2(u) ==
    /\ us[u].pc = "fetch2"
    /\ us' = [us EXCEPT ![u].pc = "done", ![u].resp = 200, ![u].snap = <<>>]
    /\ IF us[u].snap = <<>>
       THEN UNCHANGED <<inbox, published>>
       ELSE sendToOrder(us[u].rid, us[u].id,
                        Snapshot(us[u].snap[1], SelectItems(us[u].id)))
    /\ UNCHANGED <<resVars, dbVars, cr, rd, mc, sub, adm, sseClients, orderSseClients, nextReq>>

\* a query of the post-update fetch is refused: the catch of line 500 answers 500
USFetchFail(u) ==
    /\ us[u].pc \in {"fetch1", "fetch2"}
    /\ us' = [us EXCEPT ![u].pc = "done", ![u].resp = 500, ![u].snap = <<>>]
    /\ UNCHANGED <<resVars, dbVars, cr, rd, mc, obsVars, nextReq, published>>

\* --------------------------------------- POST /:id/collected (markCollected)
PhoneInputs == Phones \cup {"999"}
OrderNoInputs == {OrderNo(1, 1), OrderNo(1, 2)}

IdleMc == [pc |-> "idle", rid |-> 0, id |-> 0, order_no |-> <<>>, phone |-> "",
           seen |-> "", before |-> "", snap |-> <<>>, resp |-> 0, body |-> <<>>]

\* String.prototype.toLowerCase on the values a status column can hold
ToLowerCase(str) ==
    CASE str = "READY" -> "ready"
      [] str = "Ready" -> "ready"
      [] str = "PENDING" -> "pending"
      [] str = "COLLECTED" -> "collected"
      [] OTHER -> str

IdentityMatchesOrderNoOnly(order, order_no, customer_phone) ==
    order.order_no = order_no

\* lines 363-366: both the order_no and the phone must equal the stored ones
IdentityMatches(order, order_no, customer_phone) ==
    ~(order.order_no # order_no \/ order.customer_phone # customer_phone)

IsReadyOrPending(order) == ToLowerCase(order.status) # "collected"

\* lines 370-371: cur = status.toLowerCase(); cur !== "ready" is refused
IsReady(order) == ToLowerCase(order.status) = "ready"

\* lines 341-358: the body is validated and the SELECT is sent
MCRequest(m, ids, nos, phones) ==
    /\ mc[m].pc = "idle"
    /\ \E id \in ids, no \in nos, ph \in phones :
         mc' = [mc EXCEPT ![m] = [IdleMc EXCEPT !.pc = "select", !.rid = RidOf(m),
                                     !.id = id, !.order_no = no, !.phone = ph]]
    /\ UNCHANGED <<resVars, dbVars, cr, rd, us, obsVars, nextReq, published>>

\* String.prototype.length of an order_no: "" (written <<>>), or the eight
\* characters of the date, the dash and the sequence part
orderNoLength(no) == IF no = <<>> THEN 0 ELSE 9 + Len(no.nnn)

\* lines 181-184, 344: CollectedVerifySchema.safeParse(req.body)
CollectedVerifySchema(order_no, customer_phone) ==
    orderNoLength(order_no) >= 3 /\ length(customer_phone) >= 3

\* lines 341-358 from the request body: safeParse, 400 on failure, else the
\* SELECT is sent
MCParse(m, ids, nos, phones) ==
    /\ mc[m].pc = "idle"
    /\ \E id \in ids, no \in nos, ph \in phones :
         mc' = [mc EXCEPT ![m] =
                  IF CollectedVerifySchema(no, ph)
                  THEN [IdleMc EXCEPT !.pc = "select", !.rid = RidOf(m),
                                      !.id = id, !.order_no = no, !.phone = ph]
                  ELSE [IdleMc EXCEPT !.pc = "done", !.rid = RidOf(m), !.resp = 400,
                                      !.id = id, !.order_no = no, !.phone = ph]]
    /\ UNCHANGED <<resVars, dbVars, cr, rd, us, obsVars, nextReq, published>>

MCSelectStatusFirst(m) ==
    /\ mc[m].pc = "select"
    /\ LET res == SelectOrder(mc[m].id)
       IN mc' = [mc EXCEPT ![m] =
                   IF res = <<>>
                   THEN [@ EXCEPT !.pc = "done", !.resp = 404]
                   ELSE IF ~IsReady(res[1])
                   THEN [@ EXCEPT !.pc = "done", !.resp = 400, !.seen = res[1].status]
                   ELSE IF ~IdentityMatches(res[1], mc[m].order_no, mc[m].phone)
                   THEN [@ EXCEPT !.pc = "done", !.resp = 403, !.seen = res[1].status]
                   ELSE [@ EXCEPT !.pc = "update", !.seen = res[1].status]]
    /\ UNCHANGED <<resVars, dbVars, cr, rd, us, obsVars, nextReq, published>>

\* lines 351-384: the SELECT's row, then 404, 403, 400 or the UPDATE is sent;
\* seen is history: the status the SELECT returned
MCSelect(m) ==
    /\ mc[m].pc = "select"
    /\ LET res == SelectOrder(mc[m].id)
       IN mc' = [mc EXCEPT ![m] =
                   IF res = <<>>
                   THEN [@ EXCEPT !.pc = "done", !.resp = 404]
                   ELSE IF ~IdentityMatches(res[1], mc[m].order_no, mc[m].phone)
                   THEN [@ EXCEPT !.pc = "done", !.resp = 403, !.seen = res[1].status]
                   ELSE IF ~IsReady(res[1])
                   THEN [@ EXCEPT !.pc = "done", !.resp = 400, !.seen = res[1].status]
                   ELSE [@ EXCEPT !.pc = "update", !.seen = res[1].status]]
    /\ UNCHANGED <<resVars, dbVars, cr, rd, us, obsVars, nextReq, published>>

MCUpdateSkipsWrite(m) ==
    /\ mc[m].pc = "update"
    /\ mc' = [mc EXCEPT ![m].pc = "bcast", ![m].before = orders[mc[m].id].status]
    /\ UNCHANGED <<resVars, dbVars, cr, rd, us, obsVars, nextReq, published>>

\* lines 377-388: UPDATE orders SET status = 'collected' WHERE id = $1
\* (autocommit); before is history: the stored status the UPDATE replaced
MCUpdate(m) ==
    /\ mc[m].pc = "update"
    /\ IF mc[m].id \in DOMAIN orders
       THEN /\ orders' = [orders EXCEPT ![mc[m].id].status = "collected",
                                        ![mc[m].id].writers = @ \cup {mc[m].rid}]
            /\ mc' = [mc EXCEPT ![m].pc = "bcast",
                                ![m].before = orders[mc[m].id].status]
       ELSE /\ UNCHANGED orders
            /\ mc' = [mc EXCEPT ![m].pc = "done", ![m].resp = 404]
    /\ UNCHANGED <<resVars, today, menu_items, menuEdits, order_items, daily_order_seq, seqLock,
                   orders_id_seq, cr, rd, us, obsVars, nextReq, published>>

\* lines 390-395: admin push "collected"
MCBroadcast(m) ==
    /\ mc[m].pc = "bcast"
    /\ broadcast(mc[m].rid, "collected", mc[m].id, <<>>, "")
    /\ mc' = [mc EXCEPT ![m].pc = "fetch1"]
    /\ UNCHANGED <<resVars, dbVars, cr, rd, us, sub, adm, sseClients, orderSseClients, nextReq>>

\* line 398, first query of fetchOrderWithItems
MCFetch1(m) ==
    /\ mc[m].pc = "fetch1"
    /\ mc' = [mc EXCEPT ![m].pc = "fetch2", ![m].snap = SelectOrder(mc[m].id)]
    /\ UNCHANGED <<resVars, dbVars, cr, rd, us, obsVars, nextReq, published>>

\* lines 398-401: second query, customer push, 200 with the snapshot
MCFetch2(m) ==
    /\ mc[m].pc = "fetch2"
    /\ LET updated == IF mc[m].snap = <<>> THEN <<>>
                      ELSE <<Snapshot(mc[m].snap[1], SelectItems(mc[m].id))>>
       IN /\ mc' = [mc EXCEPT ![m].pc = "done", ![m].resp = 200,
                              ![m].body = updated, ![m].snap = <<>>]
          /\ IF updated = <<>>
             THEN UNCHANGED <<inbox, published>>
             ELSE sendToOrder(mc[m].rid, mc[m].id, updated[1])
    /\ UNCHANGED <<resVars, dbVars, cr, rd, us, sub, adm, sseClients, orderSseClients, nextReq>>

\* a query of the post-update fetch is refused: the catch of line 402 answers 500
MCFetchFail(m) ==
    /\ mc[m].pc \in {"fetch1", "fetch2"}
    /\ mc' = [mc EXCEPT ![m].pc = "done", ![m].resp = 500, ![m].snap = <<>>]
    /\ UNCHANGED <<resVars, dbVars, cr, rd, us, obsVars, nextReq, published>>

\* ------------------------------------- GET /:id/stream (customer observer)
IdleSub == [pc |-> "idle", id |-> 0, snap |-> <<>>, closed |-> FALSE]

\* orderSseClients after connection c is added under key id (lines 72-73)
AddClient(id, c) ==
    IF id \in DOMAIN orderSseClients
    THEN [orderSseClients EXCEPT ![id] = @ \cup {c}]
    ELSE (id :> {c}) @@ orderSseClients

RemoveClientKeepKey(id, c) ==
    IF id \notin DOMAIN orderSseClients THEN orderSseClients
    ELSE [orderSseClients EXCEPT ![id] = @ \ {c}]

\* lines 81-87, the close handler: delete, and drop the key of an empty set
RemoveClient(id, c) ==
    IF id \notin DOMAIN orderSseClients THEN orderSseClients
    ELSE IF orderSseClients[id] \ {c} = {}
    THEN [k \in DOMAIN orderSseClients \ {id} |-> orderSseClients[k]]
    ELSE [orderSseClients EXCEPT ![id] = @ \ {c}]

\* lines 62-73: headers, then the connection is registered
Subscribe(s, ids) ==
    /\ sub[s].pc = "idle"
    /\ \E id \in ids :
         /\ sub' = [sub EXCEPT ![s] = [IdleSub EXCEPT !.pc = "fetch1", !.id = id]]
         /\ orderSseClients' = AddClient(id, s)
    /\ UNCHANGED <<resVars, dbVars, cr, rd, us, mc, adm, sseClients, inbox, nextReq, published>>

\* line 77, first query of fetchOrderWithItems; no row: no snapshot is sent
\* and the close handler is registered (lines 78-87)
SubFetch1(s) ==
    /\ sub[s].pc = "fetch1"
    /\ LET res == SelectOrder(sub[s].id)
       IN sub' = [sub EXCEPT ![s].pc = IF res = <<>> THEN "open" ELSE "fetch2",
                             ![s].snap = res]
    /\ UNCHANGED <<resVars, dbVars, cr, rd, us, mc, adm, sseClients, orderSseClients,
                   inbox, nextReq, published>>

\* lines 77-87: second query, the initial snapshot is written, the close
\* handler is registered
SubFetch2(s) ==
    /\ sub[s].pc = "fetch2"
    /\ Deliver({s}, [event |-> "message",
                     data |-> Snapshot(sub[s].snap[1], SelectItems(sub[s].id)),
                     rid |-> 0, initial |-> TRUE])
    /\ sub' = [sub EXCEPT ![s].pc = "open", ![s].snap = <<>>]
    /\ UNCHANGED <<resVars, dbVars, cr, rd, us, mc, adm, sseClients, orderSseClients,
                   nextReq, published>>

\* a query of the initial fetch is refused: swallowed by the catch of line 79
SubFetchFail(s) ==
    /\ sub[s].pc \in {"fetch1", "fetch2"}
    /\ sub' = [sub EXCEPT ![s].pc = "open", ![s].snap = <<>>]
    /\ UNCHANGED <<resVars, dbVars, cr, rd, us, mc, adm, sseClients, orderSseClients,
                   inbox, nextReq, published>>

\* the client goes away: "close" is emitted once; the handler of lines 81-87
\* runs if it is registered by then (pc "gone": it has run)
SubClose(s) ==
    /\ sub[s].pc \in {"fetch1", "fetch2", "open"}
    /\ ~sub[s].closed
    /\ sub' = [sub EXCEPT ![s].closed = TRUE,
                          ![s].pc = IF sub[s].pc = "open" THEN "gone" ELSE @]
    /\ orderSseClients' = IF sub[s].pc = "open" THEN RemoveClient(sub[s].id, s)
                          ELSE orderSseClients
    /\ UNCHANGED <<resVars, dbVars, cr, rd, us, mc, adm, sseClients, inbox, nextReq, published>>

\* ------------------------------------------- GET /stream (admin observer)
IdleAdm == [pc |-> "idle", closed |-> FALSE, resp |-> 0, token |-> ""]

\* lines 137-141: a token is there and jwt.verify accepts it
TokenAcceptedAny(token) == token # ""
TokenAccepted(token) == token = "good"

\* lines 135-158: no token or a token jwt.verify rejects: 401; else the
\* "connected" event is written, the connection registered, its close handler set
AdminSubscribe(a) ==
    /\ adm[a].pc = "idle"
    /\ \E token \in {"", "bad", "good"} :
         IF TokenAccepted(token)
         THEN /\ adm' = [adm EXCEPT ![a].pc = "open", ![a].token = token]
              /\ inbox' = [inbox EXCEPT ![a] =
                             Append(@, [event |-> "connected", action |-> "",
                                        order_id |-> 0, order_no |-> <<>>,
                                        status |-> "", rid |-> 0])]
              /\ sseClients' = sseClients \cup {a}
         ELSE /\ adm' = [adm EXCEPT ![a].pc = "done", ![a].resp = 401, ![a].token = token]
              /\ UNCHANGED <<inbox, sseClients>>
    /\ UNCHANGED <<resVars, dbVars, cr, rd, us, mc, sub, orderSseClients, nextReq, published>>

\* the connection breaks: from now on a write to it throws, and "close" has
\* not been dispatched yet
AdminBreak(a) ==
    /\ adm[a].pc = "open"
    /\ ~adm[a].closed
    /\ adm' = [adm EXCEPT ![a].closed = TRUE]
    /\ UNCHANGED <<resVars, dbVars, cr, rd, us, mc, sub, sseClients, orderSseClients, inbox,
                   nextReq, published>>

\* lines 153-155: "close" is dispatched, the handler removes the connection
AdminClose(a) ==
    /\ adm[a].pc = "open"
    /\ adm' = [adm EXCEPT ![a].closed = TRUE, ![a].pc = "gone"]
    /\ sseClients' = sseClients \ {a}
    /\ UNCHANGED <<resVars, dbVars, cr, rd, us, mc, sub, orderSseClients, inbox, nextReq, published>>

\* ------------------------------------------------- the keep-alive timer
\* the pings written to connection c so far
Pings(c) == Cardinality({i \in 1..Len(inbox[c]) : inbox[c][i].event = "ping"})

PingReapsDead ==
    /\ \A c \in Chans : Pings(c) < MaxPings
    /\ inbox' = [c \in Chans |->
                   IF c \in sseClients /\ IsOpen(c)
                   THEN Append(inbox[c], [event |-> "ping", action |-> "", order_id |-> 0,
                                          order_no |-> <<>>, status |-> "", rid |-> 0])
                   ELSE IF (\E id \in DOMAIN orderSseClients : c \in orderSseClients[id])
                           /\ IsOpen(c)
                   THEN Append(inbox[c], [event |-> "ping", data |-> <<>>, rid |-> 0,
                                          initial |-> FALSE])
                   ELSE inbox[c]]
    /\ sseClients' = {c \in sseClients : IsOpen(c)}
    /\ UNCHANGED <<resVars, dbVars, cr, rd, us, mc, sub, adm, orderSseClients,
                   nextReq, published>>

\* lines 113-129: ": ping" to every admin connection, then to every customer
\* connection of every order; a failing write is swallowed
Ping ==
    /\ \A c \in Chans : Pings(c) < MaxPings
    /\ inbox' = [c \in Chans |->
                   IF c \in sseClients /\ IsOpen(c)
                   THEN Append(inbox[c], [event |-> "ping", action |-> "", order_id |-> 0,
                                          order_no |-> <<>>, status |-> "", rid |-> 0])
                   ELSE IF (\E id \in DOMAIN orderSseClients : c \in orderSseClients[id])
                           /\ IsOpen(c)
                   THEN Append(inbox[c], [event |-> "ping", data |-> <<>>, rid |-> 0,
                                          initial |-> FALSE])
                   ELSE inbox[c]]
    /\ UNCHANGED <<resVars, dbVars, cr, rd, us, mc, sub, adm, sseClients, orderSseClients,
                   nextReq, published>>

\* ------------------------------------------------- GET /:id (a reader)
IdleRd == [pc |-> "idle", id |-> 0, snap |-> <<>>]

\* lines 411-416 with line 18: first query; no row: 404
ReadStart ==
    /\ rd.pc \in {"idle", "done"}
    /\ \E id \in OrderIds :
         LET res == SelectOrder(id)
         IN rd' = [IdleRd EXCEPT !.pc = IF res = <<>> THEN "done" ELSE "items",
                                 !.id = id, !.snap = res]
    /\ UNCHANGED <<resVars, dbVars, cr, us, mc, obsVars, nextReq, published>>

\* what the second query of lines 22-36 makes of the reader's answer now
ReadResult == Snapshot(rd.snap[1], SelectItems(rd.id))

\* lines 22-36 and 418: second query; ReadResult is answered
ReadItems ==
    /\ rd.pc = "items"
    /\ rd' = [rd EXCEPT !.pc = "done", !.snap = <<>>]
    /\ UNCHANGED <<resVars, dbVars, cr, us, mc, obsVars, nextReq, published>>

\* lines 315-331: GET /track/:orderNo, one statement: the rows of that order_no
Track(orderNo) == {id \in DOMAIN VisibleOrders : VisibleOrders[id].order_no = orderNo}

\* lines 428-454: GET /admin, one statement: every order with its items
AdminList == [id \in DOMAIN VisibleOrders |-> Snapshot(VisibleOrders[id], SelectItems(id))]

\* ------------------------------------------------ the catalog, the date
MenuPutRepricesOrders ==
    /\ menuEdits < MaxMenuEdits
    /\ \E m \in MenuIds, v \in PriceValues, a \in BOOLEAN :
         /\ [price |-> v, is_available |-> a] # menu_items[m]
         /\ menu_items' = [menu_items EXCEPT ![m] = [price |-> v, is_available |-> a]]
         /\ order_items' =
               [id \in DOMAIN order_items |->
                  [i \in 1..Len(order_items[id]) |->
                     IF order_items[id][i].menu_item_id = m
                     THEN [order_items[id][i] EXCEPT !.unit_price = v]
                     ELSE order_items[id][i]]]
    /\ menuEdits' = menuEdits + 1
    /\ UNCHANGED <<resVars, today, orders, daily_order_seq, seqLock,
                   orders_id_seq, cr, rd, us, mc, obsVars, nextReq, published>>

\* PUT /api/admin/menu/:id (price, is_available) and DELETE (is_available = FALSE)
MenuPut ==
    /\ menuEdits < MaxMenuEdits
    /\ \E m \in MenuIds, v \in PriceValues, a \in BOOLEAN :
         /\ [price |-> v, is_available |-> a] # menu_items[m]
         /\ menu_items' = [menu_items EXCEPT ![m] = [price |-> v, is_available |-> a]]
    /\ menuEdits' = menuEdits + 1
    /\ UNCHANGED <<resVars, today, orders, order_items, daily_order_seq, seqLock,
                   orders_id_seq, cr, rd, us, mc, obsVars, nextReq, published>>

\* the store's clock passes midnight
Midnight ==
    /\ today < MaxDate
    /\ today' = today + 1
    /\ UNCHANGED <<resVars, menu_items, menuEdits, orders, order_items, daily_order_seq, seqLock,
                   orders_id_seq, cr, rd, us, mc, obsVars, nextReq, published>>

\* ---------------------------------------------------------- reservations
\* routes/reservations.routes.js.  A date is a day number (the order of the
\* YYYY-MM-DD strings is the order of the days); a time is the string the
\* body carries, as the sequence of its UTF-16 code units (48..57: the
\* digits, 58: the colon).  The accepted times are zero-padded HH:MM, for
\* which the TIME column holds one value per string.
MAX_RES_PER_SLOT == 5
NumBookers == 2
MaxReservations == 7

Bookers == {<<"book", i>> : i \in 1..NumBookers}

T0900 == <<57, 58, 48, 48>>
T1000 == <<49, 48, 58, 48, 48>>
T1130 == <<49, 49, 58, 51, 48>>
T1200 == <<49, 50, 58, 48, 48>>
T1300 == <<49, 51, 58, 48, 48>>
T1430 == <<49, 52, 58, 51, 48>>
T1730 == <<49, 55, 58, 51, 48>>
T1800 == <<49, 56, 58, 48, 48>>
T1900 == <<49, 57, 58, 48, 48>>
T2000 == <<50, 48, 58, 48, 48>>
T2100 == <<50, 49, 58, 48, 48>>
T0000 == <<48, 48, 58, 48, 48>>

\* a < b for two JavaScript strings: the first differing code unit decides,
\* a proper prefix is smaller
RECURSIVE StrLess(_, _)
StrLess(a, b) ==
    IF b = <<>> THEN FALSE
    ELSE IF a = <<>> THEN TRUE
    ELSE IF a[1] # b[1] THEN a[1] < b[1]
    ELSE StrLess(Tail(a), Tail(b))

\* a <= b and a > b for two JavaScript strings
StrLeq(a, b) == a = b \/ StrLess(a, b)
StrGreater(a, b) == StrLess(b, a)

\* lines 10-17: ReservationSchema.safeParse(req.body); name and phone of the
\* bodies are valid strings, the date is a string of 10 characters
ReservationSchema(body) ==
    /\ Len(body.reservation_time) >= 4
    /\ body.pax >= 1 /\ body.pax <= 6

\* lines 29, 38: bookingDateTime < now on the day itself; a time that is not
\* HH:MM makes an invalid Date, which is smaller than nothing
TimePassed(time, clock) == Len(time) = 5 /\ StrLess(time, clock)

\* lines 28-56: the checks before the store is asked; "" when all pass
Precheck(body, clock) ==
    LET time == body.reservation_time
        inLunch == StrLeq(T1130, time) /\ StrLeq(time, T1430)
        inDinner == StrLeq(T1730, time) /\ StrLeq(time, T2100)
    IN IF body.reservation_date < today THEN "past_date"
       ELSE IF body.reservation_date = today /\ TimePassed(time, clock) THEN "past_time"
       ELSE IF StrGreater(time, T1900) THEN "after_7pm"
       ELSE IF ~inLunch /\ ~inDinner THEN "closed"
       ELSE ""

\* the rows of one slot
SlotRows(d, t) ==
    {i \in 1..Len(reservations) :
        reservations[i].reservation_date = d /\ reservations[i].reservation_time = t}

CapCountActive(d, t) ==
    Cardinality({i \in SlotRows(d, t) :
                    reservations[i].status \notin {"cancelled", "completed"}})

\* lines 59-69: SELECT COUNT(*) .. WHERE reservation_date = @d AND
\* reservation_time = @t
CapCount(d, t) == Cardinality(SlotRows(d, t))

FullyBookedAbove(cnt) == cnt > MAX_RES_PER_SLOT

\* line 70: existingCount >= MAX_RES_PER_SLOT
FullyBooked(cnt) == cnt >= MAX_RES_PER_SLOT

IdleRs == [pc |-> "idle", date |-> 0, time |-> <<>>, cnt |-> 0, before |-> 0,
           resp |-> 0, error |-> "", id |-> 0]

\* what a finished POST handler keeps: its response (and, as history, its slot,
\* the count it read and the rows the slot held at its last step)
RsDone(h, code, err, id, held) ==
    [IdleRs EXCEPT !.pc = "done", !.date = h.date, !.time = h.time, !.cnt = h.cnt,
                   !.before = held, !.resp = code, !.error = err, !.id = id]

\* lines 20-56: the body is parsed and checked against the clock and the
\* opening hours; clock is the time of day of the request
RsRequest(b, bodies, clocks) ==
    /\ rs[b].pc \in {"idle", "done"}
    /\ Len(reservations) < MaxReservations
    /\ \E body \in bodies, clock \in clocks :
         LET h == [IdleRs EXCEPT !.date = body.reservation_date,
                                 !.time = body.reservation_time]
             held == Cardinality(SlotRows(body.reservation_date, body.reservation_time))
         IN IF ~ReservationSchema(body)
            THEN rs' = [rs EXCEPT ![b] = RsDone(h, 400, "schema", 0, held)]
            ELSE IF Precheck(body, clock) # ""
            THEN rs' = [rs EXCEPT ![b] = RsDone(h, 400, Precheck(body, clock), 0, held)]
            ELSE rs' = [rs EXCEPT ![b] = [h EXCEPT !.pc = "cap"]]
    /\ UNCHANGED <<dbVars, cr, rd, us, mc, obsVars, nextReq, published, reservations, pt>>

\* lines 58-74: the cap check: the count of the slot, 400 when it is full
RsCap(b) ==
    /\ rs[b].pc = "cap"
    /\ LET existingCount == CapCount(rs[b].date, rs[b].time)
           h == [rs[b] EXCEPT !.cnt = existingCount]
       IN IF FullyBooked(existingCount)
          THEN rs' = [rs EXCEPT ![b] = RsDone(h, 400, "fully_booked", 0,
                                              Cardinality(SlotRows(rs[b].date, rs[b].time)))]
          ELSE rs' = [rs EXCEPT ![b] = [h EXCEPT !.pc = "insert"]]
    /\ UNCHANGED <<dbVars, cr, rd, us, mc, obsVars, nextReq, published, reservations, pt>>

RsInsertIfRoom(b) ==
    /\ rs[b].pc = "insert"
    /\ LET held == Cardinality(SlotRows(rs[b].date, rs[b].time))
           id == Len(reservations) + 1
       IN IF held >= MAX_RES_PER_SLOT
          THEN /\ rs' = [rs EXCEPT ![b] = RsDone(rs[b], 400, "fully_booked", 0, held)]
               /\ UNCHANGED reservations
          ELSE /\ reservations' = Append(reservations,
                                    [id |-> id, reservation_date |-> rs[b].date,
                                     reservation_time |-> rs[b].time, status |-> "pending"])
               /\ rs' = [rs EXCEPT ![b] = RsDone(rs[b], 201, "", id, held)]
    /\ UNCHANGED <<dbVars, cr, rd, us, mc, obsVars, nextReq, published, pt>>

\* lines 76-92: INSERT INTO reservations (status takes its default), 201 with
\* the new id
RsInsert(b) ==
    /\ rs[b].pc = "insert"
    /\ LET held == Cardinality(SlotRows(rs[b].date, rs[b].time))
           id == Len(reservations) + 1
       IN /\ reservations' = Append(reservations,
                                [id |-> id, reservation_date |-> rs[b].date,
                                 reservation_time |-> rs[b].time, status |-> "pending"])
          /\ rs' = [rs EXCEPT ![b] = RsDone(rs[b], 201, "", id, held)]
    /\ UNCHANGED <<dbVars, cr, rd, us, mc, obsVars, nextReq, published, pt>>

\* lines 93-96: a query of the handler is refused by the store: 500
RsFail(b) ==
    /\ rs[b].pc \in {"cap", "insert"}
    /\ rs' = [rs EXCEPT ![b] = RsDone(rs[b], 500, "store", 0,
                                      Cardinality(SlotRows(rs[b].date, rs[b].time)))]
    /\ UNCHANGED <<dbVars, cr, rd, us, mc, obsVars, nextReq, published, reservations, pt>>

\* line 241: the statuses PATCH /:id/status accepts
ResAllowed == {"pending", "confirmed", "seated", "completed", "cancelled"}

IdlePt == [id |-> 0, status |-> "", resp |-> 0]

\* lines 235-255: PATCH /:id/status: 400 for a status outside the list, the
\* UPDATE by id, 404 when it touched no row
PatchStatus(ids, statuses) ==
    \E id \in ids, status \in statuses :
        /\ IF status \notin ResAllowed
           THEN /\ pt' = [id |-> id, status |-> status, resp |-> 400]
                /\ UNCHANGED reservations
           ELSE IF id \in 1..Len(reservations)
           THEN /\ reservations' = [reservations EXCEPT ![id].status = status]
                /\ pt' = [id |-> id, status |-> status, resp |-> 200]
           ELSE /\ pt' = [id |-> id, status |-> status, resp |-> 404]
                /\ UNCHANGED reservations
        /\ UNCHANGED <<dbVars, cr, rd, us, mc, obsVars, nextReq, published, rs>>

\* ------------------------------------------------------ specifications
\* the server has started and the tables are empty
Init ==
    /\ today = 1
    /\ reservations = <<>>
    /\ rs = [b \in Bookers |-> IdleRs]
    /\ pt = IdlePt
    /\ menu_items = [m \in MenuIds |->
                       [price |-> IF m = 1 THEN 500 ELSE 350, is_available |-> TRUE]]
    /\ orders = <<>>
    /\ order_items = <<>>
    /\ daily_order_seq = [d \in Dates |-> 0]
    /\ seqLock = [d \in Dates |-> NoProc]
    /\ orders_id_seq = 1
    /\ cr = [p \in Creators |-> IdleCr]
    /\ rd = IdleRd
    /\ us = [u \in Updaters |-> IdleUs]
    /\ mc = [m \in Collectors |-> IdleMc]
    /\ sub = [s \in CustChans |-> IdleSub]
    /\ adm = [a \in AdminChans |-> IdleAdm]
    /\ sseClients = {}
    /\ orderSseClients = <<>>
    /\ inbox = [c \in Chans |-> <<>>]
    /\ nextReq = 1
    /\ menuEdits = 0
    /\ published = [r \in Rids |-> [admin |-> 0, order |-> 0, lost |-> 0]]

\* the steps of one POST / handler after its request
CreateSteps(p) ==
    \/ SeqUpsert(p)
    \/ OrderInsert(p)
    \/ ItemStep(p)
    \/ TotalUpdate(p)
    \/ Commit(p)
    \/ CreateFail(p)
    \/ CreateBroadcast(p)
    \/ CreateFetch1(p)
    \/ CreateFetch2(p)
    \/ CreatePostFail(p)

NextSeq ==
    \/ \E p \in Creators : CreateRequest(p, SingleItemLists, MaxRequests)
    \/ \E p \in Creators : CreateSteps(p)
    \/ Midnight

\* the daily counter: concurrent creators of one-item orders, around midnight
SpecSeq == Init /\ [][NextSeq]_vars

NextCreate ==
    \/ \E p \in Creators : CreateRequest(p, ItemLists, MaxOrders)
    \/ \E p \in Creators : CreateSteps(p)
    \/ ReadStart
    \/ ReadItems
    \/ MenuPut

\* order creation under concurrent creators, a reader and catalog edits
SpecCreate == Init /\ [][NextCreate]_vars

\* an order_items row of an earlier order of the busy day: 2 x menu item 1
BusyItem == ItemRow(0, [menu_item_id |-> 1, quantity |-> 2],
                    Number(500), LineTotal(Number(500), 2))

\* the state on day 1 after BusyDay orders were created one after the other,
\* each for 2 x menu item 1, and every handler has answered 201 (rid 0
\* stands for the requests before the ones observed)
InitBusy ==
    /\ today = 1
    /\ reservations = <<>>
    /\ rs = [b \in Bookers |-> IdleRs]
    /\ pt = IdlePt
    /\ menu_items = [m \in MenuIds |->
                       [price |-> IF m = 1 THEN 500 ELSE 350, is_available |-> TRUE]]
    /\ orders = [id \in 1..BusyDay |->
                   [id |-> id, order_no |-> OrderNo(1, id), customer_phone |-> "555",
                    order_type |-> "takeaway", status |-> "pending",
                    total_amount |-> BusyItem.line_total,
                    rid |-> 0, req |-> <<[menu_item_id |-> 1, quantity |-> 2]>>,
                    writers |-> {0}]]
    /\ order_items = [id \in 1..BusyDay |-> <<[BusyItem EXCEPT !.order_id = id]>>]
    /\ daily_order_seq = [d \in Dates |-> IF d = 1 THEN BusyDay ELSE 0]
    /\ seqLock = [d \in Dates |-> NoProc]
    /\ orders_id_seq = BusyDay + 1
    /\ cr = [p \in Creators |-> IdleCr]
    /\ rd = IdleRd
    /\ us = [u \in Updaters |-> IdleUs]
    /\ mc = [m \in Collectors |-> IdleMc]
    /\ sub = [s \in CustChans |-> IdleSub]
    /\ adm = [a \in AdminChans |-> IdleAdm]
    /\ sseClients = {}
    /\ orderSseClients = <<>>
    /\ inbox = [c \in Chans |-> <<>>]
    /\ nextReq = 1
    /\ menuEdits = 0
    /\ published = [r \in Rids |-> [admin |-> 0, order |-> 0, lost |-> 0]]

NextBusy ==
    \/ \E p \in {<<"create", 1>>} : CreateRequest(p, SingleItemLists, MaxOrders)
    \/ \E p \in {<<"create", 1>>} : CreateSteps(p)
    \/ Midnight

\* the daily counter near its thousandth order
SpecBusy == InitBusy /\ [][NextBusy]_vars

\* request items that also name a menu id with no row in menu_items
MenuRefs == ItemSpace \cup {[menu_item_id |-> 3, quantity |-> 1]}
MenuRefLists == UNION {[1..n -> MenuRefs] : n \in 1..MaxItems}

NextMenu ==
    \/ \E p \in {<<"create", 1>>} : CreateRequest(p, MenuRefLists, MaxOrders)
    \/ \E p \in {<<"create", 1>>} : CreateSteps(p)
    \/ MenuPut

\* order creation against a catalog whose items are absent or withdrawn
SpecMenu == Init /\ [][NextMenu]_vars

NextValidate ==
    \/ \E p \in Creators : CreateParse(p, RawBodies, NumCreators)
    \/ \E p \in Creators : CreateSteps(p)
    \/ \E a \in {<<"admin", 1>>} : AdminSubscribe(a) \/ AdminClose(a)

\* order creation from request bodies that pass or fail the schema
SpecValidate == Init /\ [][NextValidate]_vars

\* the state after request 1 created order 1 on day 1 (2 x menu item 1 and
\* 1 x menu item 2 at the initial prices) and its handler answered 201
FirstBody == <<[menu_item_id |-> 1, quantity |-> 2], [menu_item_id |-> 2, quantity |-> 1]>>
FirstItems == <<ItemRow(1, FirstBody[1], Number(500), LineTotal(Number(500), 2)),
                ItemRow(1, FirstBody[2], Number(350), LineTotal(Number(350), 1))>>
\* the total of the item loop for FirstBody
FirstTotal == JSAdd(JSAdd(Zero, LineTotal(Number(500), 2)), LineTotal(Number(350), 1))
FirstOrder == [id |-> 1, order_no |-> OrderNo(1, 1), customer_phone |-> "555",
               order_type |-> "takeaway",
               status |-> "pending", total_amount |-> ToDecimal2(FirstTotal),
               rid |-> 1, req |-> FirstBody, writers |-> {1}]

InitStatus ==
    /\ today = 1
    /\ reservations = <<>>
    /\ rs = [b \in Bookers |-> IdleRs]
    /\ pt = IdlePt
    /\ menu_items = [m \in MenuIds |->
                       [price |-> IF m = 1 THEN 500 ELSE 350, is_available |-> TRUE]]
    /\ orders = (1 :> FirstOrder)
    /\ order_items = (1 :> FirstItems)
    /\ daily_order_seq = [d \in Dates |-> IF d = 1 THEN 1 ELSE 0]
    /\ seqLock = [d \in Dates |-> NoProc]
    /\ orders_id_seq = 2
    /\ cr = [p \in Creators |->
               IF p = <<"create", 1>>
               THEN Finished([IdleCr EXCEPT !.rid = 1, !.orderId = 1, !.i = 3], 201,
                             <<[order_id |-> 1, order_no |-> OrderNo(1, 1),
                                total_amount |-> FirstTotal]>>, "")
               ELSE IdleCr]
    /\ rd = IdleRd
    /\ us = [u \in Updaters |-> IdleUs]
    /\ mc = [m \in Collectors |-> IdleMc]
    /\ sub = [s \in CustChans |-> IdleSub]
    /\ adm = [a \in AdminChans |-> IdleAdm]
    /\ sseClients = {}
    /\ orderSseClients = <<>>
    /\ inbox = [c \in Chans |-> <<>>]
    /\ nextReq = 2
    /\ menuEdits = 0
    /\ published = [r \in Rids |-> IF r = 1 THEN [admin |-> 1, order |-> 1, lost |-> 0]
                                   ELSE [admin |-> 0, order |-> 0, lost |-> 0]]

\* the steps of one PUT /:id handler after its request
USSteps(u) ==
    \/ USUpdate(u)
    \/ USBroadcast(u)
    \/ USFetch1(u)
    \/ USFetch2(u)
    \/ USFetchFail(u)

\* the steps of one POST /:id/collected handler after its request
MCSteps(m) ==
    \/ MCSelect(m)
    \/ MCUpdate(m)
    \/ MCBroadcast(m)
    \/ MCFetch1(m)
    \/ MCFetch2(m)
    \/ MCFetchFail(m)

\* order 1 exists, order 2 does not
TargetIds == {1, 2}

NextStatus ==
    \/ \E u \in Updaters : USRequest(u, TargetIds, StatusInputs) \/ USSteps(u)
    \/ \E m \in Collectors : MCRequest(m, TargetIds, OrderNoInputs, PhoneInputs) \/ MCSteps(m)

\* the status operations on the orders, any inputs, no observer connected
SpecStatus == InitStatus /\ [][NextStatus]_vars

NextStream ==
    \/ \E u \in {<<"update", 1>>} : USRequest(u, {1}, Allowed) \/ USSteps(u)
    \/ \E m \in {<<"collect", 1>>} : MCRequest(m, {1}, {OrderNo(1, 1)}, Phones) \/ MCSteps(m)
    \/ \E p \in {<<"create", 2>>} :
         \/ cr[p].pc = "idle" /\ CreateRequest(p, {FirstBody}, MaxRequests)
         \/ CreateSteps(p)
    \/ \E s \in {<<"cust", 1>>} :
         \/ Subscribe(s, TargetIds)
         \/ SubFetch1(s)
         \/ SubFetch2(s)
         \/ SubFetchFail(s)
         \/ SubClose(s)
    \/ \E a \in {<<"admin", 1>>} : AdminSubscribe(a) \/ AdminClose(a)

\* one creation, one updateStatus and one markCollected with observers
\* subscribing and disconnecting at any moment
SpecStream == InitStatus /\ [][NextStream]_vars

NextFan ==
    \/ \E u \in {<<"update", 1>>} : USRequest(u, {1}, {"ready"}) \/ USSteps(u)
    \/ \E s \in CustChans :
         \/ Subscribe(s, {1})
         \/ SubFetch1(s)
         \/ SubFetch2(s)
         \/ SubFetchFail(s)
         \/ SubClose(s)
    \/ \E a \in AdminChans : AdminSubscribe(a) \/ AdminBreak(a) \/ AdminClose(a)

\* the fan-out: an updateStatus to ready on order 1 with several observers
\* of each scope that subscribe, break and disconnect
SpecFan == InitStatus /\ [][NextFan]_vars

NextAdmin ==
    \/ \E u \in {<<"update", 1>>} : USRequest(u, {1}, {"ready"}) \/ USSteps(u)
    \/ \E m \in {<<"collect", 1>>} : MCRequest(m, {1}, {OrderNo(1, 1)}, Phones) \/ MCSteps(m)
    \/ \E p \in {<<"create", 2>>} :
         \/ cr[p].pc = "idle" /\ CreateRequest(p, {<<FirstBody[1]>>}, MaxRequests)
         \/ CreateSteps(p)
    \/ \E a \in AdminChans : AdminSubscribe(a) \/ AdminBreak(a) \/ AdminClose(a)

\* the admin stream: subscriptions with any token that break and disconnect,
\* one creation, one updateStatus and one markCollected
SpecAdmin == InitStatus /\ [][NextAdmin]_vars

NextPing ==
    \/ \E u \in {<<"update", 1>>} : USRequest(u, {1}, {"ready"}) \/ USSteps(u)
    \/ \E s \in {<<"cust", 1>>} :
         \/ Subscribe(s, {1})
         \/ SubFetch1(s)
         \/ SubFetch2(s)
         \/ SubFetchFail(s)
         \/ SubClose(s)
    \/ \E a \in AdminChans : AdminSubscribe(a) \/ AdminBreak(a) \/ AdminClose(a)
    \/ Ping

\* the streams with the keep-alive timer: subscriptions with any token, a
\* customer subscription and one updateStatus
SpecPing == InitStatus /\ [][NextPing]_vars

NextLifecycle ==
    \/ \E u \in {<<"update", 1>>} : USRequest(u, TargetIds, StatusInputs) \/ USSteps(u)
    \/ \E m \in {<<"collect", 1>>} :
         \/ /\ us[<<"update", 1>>].pc = "done"
            /\ MCRequest(m, {1}, {OrderNo(1, 1)}, Phones)
         \/ MCSteps(m)
    \/ \E s \in {<<"cust", 1>>} :
         \/ Subscribe(s, {1})
         \/ SubFetch1(s)
         \/ SubFetch2(s)
         \/ SubFetchFail(s)
         \/ SubClose(s)
    \/ \E a \in {<<"admin", 1>>} : AdminSubscribe(a) \/ AdminClose(a)

\* the lifecycle of order 1 in sequence: one updateStatus with any status and
\* any order id, then, after it has answered, one markCollected with the
\* stored order_no and phone, while observers subscribe and disconnect
SpecLifecycle == InitStatus /\ [][NextLifecycle]_vars

NextFrame ==
    \/ \E u \in {<<"update", 1>>} : USRequest(u, {1}, Allowed) \/ USSteps(u)
    \/ \E m \in {<<"collect", 1>>} : MCRequest(m, {1}, {OrderNo(1, 1)}, Phones) \/ MCSteps(m)
    \/ \E p \in {<<"create", 2>>} :
         \/ cr[p].pc = "idle" /\ CreateRequest(p, {FirstBody}, MaxRequests)
         \/ CreateSteps(p)
    \/ MenuPut

\* every operation that writes: a creation, an updateStatus, a markCollected
\* and a catalog edit, on a store that holds order 1
SpecFrame == InitStatus /\ [][NextFrame]_vars

NextMoves ==
    \/ \E u \in Updaters : USRequest(u, TargetIds, Allowed) \/ USSteps(u)
    \/ \E p \in {<<"create", 2>>} :
         \/ cr[p].pc = "idle" /\ CreateRequest(p, {<<FirstBody[1]>>}, MaxRequests)
         \/ CreateSteps(p)

\* two updateStatus requests with allowed values on an existing order and on
\* one that is being created
SpecMoves == InitStatus /\ [][NextMoves]_vars

\* the bodies of a markCollected: the stored values, other well-formed
\* values, an empty order_no and a phone of two characters
CollectNos == OrderNoInputs \cup {<<>>}
CollectPhones == PhoneInputs \cup {"55"}

NextCollect ==
    \/ \E u \in Updaters : USRequest(u, TargetIds, StatusInputs) \/ USSteps(u)
    \/ \E m \in Collectors : MCParse(m, TargetIds, CollectNos, CollectPhones) \/ MCSteps(m)

\* markCollected with any body on a known or unknown id, next to an updateStatus
SpecCollect == InitStatus /\ [][NextCollect]_vars

\* request bodies for one creation: accepted, rejected by the schema, and
\* accepted with a menu id that has no row
QuietBodies ==
    { [customer_name |-> "Ann", customer_phone |-> "555", order_type |-> <<>>,
       items |-> <<[menu_item_id |-> Num(m, 1), quantity |-> Num(q, 1)]>>] :
      m \in {1, 3}, q \in {0, 1} }

NextQuiet ==
    \/ \E u \in {<<"update", 1>>} :
         USRequest(u, TargetIds, {"ready", "cancelled"}) \/ USSteps(u)
    \/ \E m \in {<<"collect", 1>>} :
         MCRequest(m, TargetIds, OrderNoInputs, Phones) \/ MCSteps(m)
    \/ \E p \in {<<"create", 2>>} :
         \/ cr[p].pc = "idle" /\ CreateParse(p, QuietBodies, MaxRequests)
         \/ CreateSteps(p)
    \/ ReadStart
    \/ ReadItems

\* the state after order 1 was created, an admin connected with a valid
\* token and a customer subscribed to order 1 and was sent its snapshot
InitQuiet ==
    /\ today = 1
    /\ reservations = <<>>
    /\ rs = [b \in Bookers |-> IdleRs]
    /\ pt = IdlePt
    /\ menu_items = [m \in MenuIds |->
                       [price |-> IF m = 1 THEN 500 ELSE 350, is_available |-> TRUE]]
    /\ orders = (1 :> FirstOrder)
    /\ order_items = (1 :> FirstItems)
    /\ daily_order_seq = [d \in Dates |-> IF d = 1 THEN 1 ELSE 0]
    /\ seqLock = [d \in Dates |-> NoProc]
    /\ orders_id_seq = 2
    /\ cr = [p \in Creators |->
               IF p = <<"create", 1>>
               THEN Finished([IdleCr EXCEPT !.rid = 1, !.orderId = 1, !.i = 3], 201,
                             <<[order_id |-> 1, order_no |-> OrderNo(1, 1),
                                total_amount |-> FirstTotal]>>, "")
               ELSE IdleCr]
    /\ rd = IdleRd
    /\ us = [u \in Updaters |-> IdleUs]
    /\ mc = [m \in Collectors |-> IdleMc]
    /\ sub = [s \in CustChans |->
                IF s = <<"cust", 1>> THEN [IdleSub EXCEPT !.pc = "open", !.id = 1]
                ELSE IdleSub]
    /\ adm = [a \in AdminChans |->
                IF a = <<"admin", 1>> THEN [IdleAdm EXCEPT !.pc = "open", !.token = "good"]
                ELSE IdleAdm]
    /\ sseClients = {<<"admin", 1>>}
    /\ orderSseClients = (1 :> {<<"cust", 1>>})
    /\ inbox = [c \in Chans |->
                  IF c = <<"admin", 1>>
                  THEN <<[event |-> "connected", action |-> "", order_id |-> 0,
                          order_no |-> <<>>, status |-> "", rid |-> 0]>>
                  ELSE IF c = <<"cust", 1>>
                  THEN <<[event |-> "message", data |-> Snapshot(FirstOrder, FirstItems),
                          rid |-> 0, initial |-> TRUE]>>
                  ELSE <<>>]
    /\ nextReq = 2
    /\ menuEdits = 0
    /\ published = [r \in Rids |-> IF r = 1 THEN [admin |-> 1, order |-> 1, lost |-> 0]
                                   ELSE [admin |-> 0, order |-> 0, lost |-> 0]]

\* requests of every kind that succeed or are refused, and reads, in front
\* of one admin and one customer connection
SpecQuiet == InitQuiet /\ [][NextQuiet]_vars

\* ---------------------------------------------------------------- claims
\* the committed orders of date d, and the suffixes of their order numbers
OrdersOn(d) == {id \in DOMAIN orders : orders[id].order_no.ymd = d}
SuffixesOn(d) == {orders[id].order_no.nnn : id \in OrdersOn(d)}
NoPublish == [admin |-> 0, order |-> 0, lost |-> 0]

\* C1: for every date, the sequence suffixes of the orders committed on that
\* date are exactly 001..N, N the number of those orders: no duplicate, no
\* gap, whatever the interleaving of the creators and whichever of them
\* rolled back.
C1_DailySuffixesContiguous ==
    \A d \in Dates :
        SuffixesOn(d) = {PadStart(ToDigits(n), 3, 0) : n \in 1..Cardinality(OrdersOn(d))}

\* two orders committed on day 1 with suffixes 001 and 002, after a creation
\* that had taken a sequence number was rolled back
C1_Witness ==
    /\ today = 1
    /\ SuffixesOn(1) = {<<0, 0, 1>>, <<0, 0, 2>>}
    /\ \E p \in Creators :
         cr[p].pc = "done" /\ cr[p].resp = 400 /\ cr[p].failedAt \in {"seq", "items", "total"}

\* an answer of a reader is whole: the items the request asked for, in its
\* order, and the final total (never the placeholder 0)
Complete(snap) ==
    /\ Len(snap.items) = Len(snap.order.req)
    /\ \A i \in 1..Len(snap.items) :
         /\ snap.items[i].menu_item_id = snap.order.req[i].menu_item_id
         /\ snap.items[i].quantity = snap.order.req[i].quantity
    /\ snap.order.total_amount = SumLineTotals(snap.items)
    /\ snap.order.total_amount # 0

\* C2: every order a reader can see is whole: the admin list and track (one
\* statement each), get-by-id and the post-commit snapshot fetch (two
\* statements) never answer an order without all its items or with the
\* placeholder total.
C2_ReadersSeeWholeOrders ==
    /\ \A id \in DOMAIN AdminList : Complete(AdminList[id])
    /\ \A d \in Dates, n \in 1..MaxRequests :
         \A id \in Track(OrderNo(d, n)) : Complete(Snapshot(VisibleOrders[id], SelectItems(id)))
    /\ rd.pc = "items" => Complete(ReadResult)
    /\ \A p \in Creators :
         cr[p].pc = "fetch2" /\ cr[p].snap # <<>> =>
             Complete(Snapshot(cr[p].snap[1], SelectItems(cr[p].orderId)))

\* the reader is between its two statements on a committed two-item order
\* while another creation has inserted its order row and one of its two items
C2_Witness ==
    /\ rd.pc = "items"
    /\ Len(ReadResult.items) = 2
    /\ \E p \in Creators :
         /\ cr[p].pendOrder # <<>>
         /\ Len(cr[p].pendItems) = 1
         /\ Len(cr[p].items) = 2

\* the catalog price of menu item m when the server started
InitialPrice(m) == IF m = 1 THEN 500 ELSE 350

\* C3: in every committed order each stored line_total is unit_price x
\* quantity, unit_price is a price the catalog held (never an input of the
\* client), the stored total_amount is the sum of the line_totals, and the
\* total_amount answered with 201 is the number the stored amount denotes.
C3_TotalIsSumOfLines ==
    /\ \A id \in DOMAIN orders :
         /\ \A i \in 1..Len(order_items[id]) :
              LET row == order_items[id][i]
              IN /\ row.line_total = row.unit_price * row.quantity
                 /\ row.unit_price \in {InitialPrice(row.menu_item_id),
                                        menu_items[row.menu_item_id].price}
                 /\ menuEdits = 0 => row.unit_price = menu_items[row.menu_item_id].price
         /\ orders[id].total_amount = SumLineTotals(order_items[id])
    /\ \A p \in Creators :
         cr[p].pc = "done" /\ cr[p].resp = 201 =>
             /\ cr[p].orderId \in DOMAIN orders
             /\ cr[p].body[1].total_amount = Number(orders[cr[p].orderId].total_amount)

\* C4: a creation whose transaction failed at any step (counter write, order
\* insert, menu lookup or item insert at any position, total update, commit)
\* leaves no order row and no item, has published nothing, and the counter
\* of every date still counts the committed orders of that date.
C4_FailedCreationLeavesNothing ==
    /\ \A p \in Creators :
         cr[p].pc = "done" /\ cr[p].resp = 400 /\ cr[p].failedAt # "post_commit" =>
             /\ \A id \in DOMAIN orders : orders[id].rid # cr[p].rid
             /\ cr[p].orderId \notin DOMAIN orders
             /\ cr[p].orderId \notin DOMAIN order_items
             /\ published[cr[p].rid] = NoPublish
    /\ \A d \in Dates : daily_order_seq[d] = Cardinality(OrdersOn(d))

\* a creation failed on the menu lookup of its second item, after its order
\* row and first item were inserted, while another order is committed
C4_Witness ==
    /\ DOMAIN orders # {}
    /\ \E p \in Creators :
         /\ cr[p].pc = "done" /\ cr[p].resp = 400
         /\ cr[p].failedAt = "menu"
         /\ cr[p].i = 2
         /\ cr[p].orderId # 0

\* the stored order_no and phone of the order a markCollected names equal
\* the supplied ones
SuppliedMatch(m) ==
    /\ orders[mc[m].id].order_no = mc[m].order_no
    /\ orders[mc[m].id].customer_phone = mc[m].phone

\* C5: a markCollected with matching order_no and phone goes on to its write
\* only when the status its SELECT returned is ready; when that status is
\* pending or collected it answers 400, writes nothing and publishes nothing.
C5_CollectOnlyFromReady ==
    \A m \in Collectors :
        /\ mc[m].pc \in {"update", "bcast", "fetch1", "fetch2"} \/ mc[m].resp \in {200, 500}
              => mc[m].seen = "ready"
        /\ mc[m].before # "" => mc[m].seen = "ready"
        /\ mc[m].pc = "done" /\ mc[m].id \in DOMAIN orders /\ SuppliedMatch(m)
              /\ mc[m].seen \in {"pending", "collected"}
              => /\ mc[m].resp = 400
                 /\ mc[m].before = ""
                 /\ published[mc[m].rid] = NoPublish

\* a fully matching markCollected on a collected order was answered 400
C5_Witness ==
    \E m \in Collectors :
        /\ mc[m].pc = "done" /\ mc[m].resp = 400
        /\ mc[m].seen = "collected"
        /\ SuppliedMatch(m)
        /\ orders[mc[m].id].status = "collected"

\* C6: the UPDATE of markCollected replaces only the stored status ready
\* (before: the status stored when the UPDATE ran), in every interleaving
\* with updateStatus; in particular it never replaces pending.
C6_CollectWritesOverReadyOnly ==
    \A m \in Collectors : mc[m].before \in {"", "ready"}

Pushed(c) == {i \in 1..Len(inbox[c]) : inbox[c][i].rid # 0}

\* the order a written message is about
OrderOf(msg) == IF msg.event = "message" THEN msg.data.order.id ELSE msg.order_id

\* C8: whenever a connection holds an admin event or a customer snapshot
\* that createOrder, markCollected or updateStatus caused, a reader sees the
\* order with that request's write in it: the write was committed before the
\* message was written.
C8_CommittedBeforePublished ==
    \A c \in Chans : \A i \in Pushed(c) :
        /\ OrderOf(inbox[c][i]) \in DOMAIN VisibleOrders
        /\ inbox[c][i].rid \in VisibleOrders[OrderOf(inbox[c][i])].writers

\* an admin connection holds a created, a status_updated and a collected
\* event, and a customer connection a pushed snapshot
C8_Witness ==
    /\ \E a \in AdminChans :
         {"created", "status_updated", "collected"} \subseteq
             {inbox[a][i].action : i \in 1..Len(inbox[a])}
    /\ \E s \in CustChans : Pushed(s) # {}

\* C9: the initial snapshot of a subscription comes before every snapshot
\* caused by a later change: no snapshot written to the connection before
\* the initial one holds a write the initial one lacks.
C9_InitialSnapshotFirst ==
    \A s \in CustChans : \A i \in 1..Len(inbox[s]) :
        inbox[s][i].initial =>
            \A j \in 1..(i - 1) :
                inbox[s][j].data.order.writers \subseteq inbox[s][i].data.order.writers

\* where the event of request rid stands on admin connection a (0: not there)
AdminPos(a, rid) ==
    IF \E k \in 1..Len(inbox[a]) : inbox[a][k].rid = rid
    THEN CHOOSE k \in 1..Len(inbox[a]) : inbox[a][k].rid = rid
    ELSE 0

\* C10: the snapshots pushed to a customer connection come in the order in
\* which an admin connection received the events of the same requests (two
\* snapshots that carry the same status count as in order).
C10_SnapshotsInEventOrder ==
    \A s \in CustChans, a \in AdminChans :
        \A i \in Pushed(s), j \in Pushed(s) :
            /\ i < j
            /\ AdminPos(a, inbox[s][i].rid) # 0
            /\ AdminPos(a, inbox[s][j].rid) # 0
            => \/ AdminPos(a, inbox[s][i].rid) < AdminPos(a, inbox[s][j].rid)
               \/ inbox[s][i].data.order.status = inbox[s][j].data.order.status

\* the messages on connection c that request r caused
EventsOf(c, r) == {i \in 1..Len(inbox[c]) : inbox[c][i].rid = r}

\* the write of request r is in the stored orders
Mutated(r) == \E id \in DOMAIN orders : r \in orders[id].writers

\* the requests whose handlers have answered
Answered ==
    {us[u].rid : u \in {x \in Updaters : us[x].pc = "done"}}
        \cup {mc[m].rid : m \in {x \in Collectors : mc[x].pc = "done"}}
        \cup {cr[p].rid : p \in {x \in Creators : cr[x].pc = "done"}}

\* a step that is a call of broadcast by request r
BroadcastStep(r) == published'[r].admin = published[r].admin + 1

\* C11: no admin connection holds the event of a request twice; a request
\* whose write is stored has called broadcast exactly once when it answers,
\* and no other request calls it; a call of broadcast writes the event once
\* to every registered admin connection whose write does not fail and to no
\* other connection.
C11_AdminEventOncePerObserver ==
    /\ [](\A r \in Rids :
            /\ \A a \in AdminChans : Cardinality(EventsOf(a, r)) <= 1
            /\ published[r].admin <= 1
            /\ published[r].admin = 1 => Mutated(r)
            /\ r \in Answered /\ Mutated(r) => published[r].admin = 1)
    /\ [][\A r \in Rids : BroadcastStep(r) =>
            \A a \in AdminChans :
                IF a \in sseClients /\ IsOpen(a)
                THEN /\ Len(inbox'[a]) = Len(inbox[a]) + 1
                     /\ SubSeq(inbox'[a], 1, Len(inbox[a])) = inbox[a]
                     /\ inbox'[a][Len(inbox'[a])].rid = r
                     /\ inbox'[a][Len(inbox'[a])].event = "orders_updated"
                ELSE inbox'[a] = inbox[a]]_vars

\* one admin connection holds the created, the status_updated and the
\* collected event, a second one holds an event too, and a write of a
\* broadcast has failed on a broken connection
C11_Witness ==
    /\ \E a \in AdminChans :
         /\ {"created", "status_updated", "collected"} \subseteq
                {inbox[a][i].action : i \in 1..Len(inbox[a])}
         /\ \E b \in AdminChans \ {a} : \E r \in Rids : EventsOf(b, r) # {}
    /\ \E r \in Rids : published[r].admin = 1 /\ published[r].lost > 0

\* the order the handler of request r works on (0: no handler holds r)
OrderOfRequest(r) ==
    IF \E u \in Updaters : us[u].rid = r
    THEN us[CHOOSE u \in Updaters : us[u].rid = r].id
    ELSE IF \E m \in Collectors : mc[m].rid = r
    THEN mc[CHOOSE m \in Collectors : mc[m].rid = r].id
    ELSE IF \E p \in Creators : cr[p].rid = r
    THEN cr[CHOOSE p \in Creators : cr[p].rid = r].orderId
    ELSE 0

\* a step that is a call of sendToOrder by request r
SendToOrderStep(r) == published'[r].order = published[r].order + 1

\* the connections a publish of request r in this step writes to
PublishTargets(r) ==
    IF BroadcastStep(r) THEN sseClients
    ELSE IF OrderOfRequest(r) \in DOMAIN orderSseClients
    THEN orderSseClients[OrderOfRequest(r)]
    ELSE {}

\* after a publish the handler of request r goes on as if no write had
\* failed: to its fetch after broadcast, to its success answer after sendToOrder
GoesOn(r) ==
    /\ \A u \in Updaters : us[u].rid = r =>
          IF BroadcastStep(r) THEN us'[u].pc = "fetch1"
          ELSE us'[u].pc = "done" /\ us'[u].resp = 200
    /\ \A m \in Collectors : mc[m].rid = r =>
          IF BroadcastStep(r) THEN mc'[m].pc = "fetch1"
          ELSE mc'[m].pc = "done" /\ mc'[m].resp = 200
    /\ \A p \in Creators : cr[p].rid = r =>
          IF BroadcastStep(r) THEN cr'[p].pc = "fetch1"
          ELSE cr'[p].pc = "done" /\ cr'[p].resp = 201

\* C12: in a publish (broadcast or sendToOrder) in which the write to some
\* connection fails, every other connection of that scope has the message
\* appended, the publishing handler goes on to its normal next step and
\* answer, and the stored orders, with the write of the request, stay.
C12_FailedWriteIsIsolated ==
    [][\A r \in Rids :
          (BroadcastStep(r) \/ SendToOrderStep(r)) /\ published'[r].lost > published[r].lost =>
              /\ \A c \in PublishTargets(r) :
                    IsOpen(c) => /\ Len(inbox'[c]) = Len(inbox[c]) + 1
                                 /\ inbox'[c][Len(inbox'[c])].rid = r
              /\ GoesOn(r)
              /\ orders' = orders
              /\ Mutated(r)]_vars

\* the updateStatus answered 200 after both of its publishes lost a write:
\* one admin connection and one customer connection hold its message while
\* another registered connection of each scope, already broken or closed, does not
C12_Witness ==
    \E u \in Updaters :
        /\ us[u].pc = "done" /\ us[u].resp = 200
        /\ published[us[u].rid].lost >= 2
        /\ \E a \in AdminChans, b \in AdminChans :
             /\ EventsOf(a, us[u].rid) # {}
             /\ adm[b].closed /\ inbox[b] # <<>> /\ EventsOf(b, us[u].rid) = {}
        /\ \E s \in CustChans, t \in CustChans :
             /\ EventsOf(s, us[u].rid) # {}
             /\ sub[t].closed /\ sub[t].pc # "gone" /\ EventsOf(t, us[u].rid) = {}

\* the customer connections in the per-order registry
RegisteredCust ==
    {s \in CustChans : \E id \in DOMAIN orderSseClients : s \in orderSseClients[id]}

\* C13: once the "close" of a connection has been emitted (for a customer
\* connection at any moment after its subscribe request began, the initial
\* fetch included), the connection is in no registry.
C13_ClosedChannelIsDeregistered ==
    /\ \A s \in CustChans : sub[s].closed => s \notin RegisteredCust
    /\ \A a \in AdminChans : adm[a].pc = "gone" => a \notin sseClients

\* the connections subscribed to order id whose close handler has not run
SubscribedTo(id) ==
    {s \in CustChans : sub[s].id = id /\ sub[s].pc \in {"fetch1", "fetch2", "open"}}

\* C14: the per-order registry holds no empty set: an order id is a key of
\* the map exactly when a connection is registered for it, and the set under
\* the key is the set of those connections.
C14_NoEmptyRegistrySet ==
    /\ \A id \in DOMAIN orderSseClients :
         /\ orderSseClients[id] # {}
         /\ orderSseClients[id] = SubscribedTo(id)
    /\ \A s \in CustChans :
         sub[s].pc \in {"fetch1", "fetch2", "open"} => sub[s].id \in DOMAIN orderSseClients

\* two connections of order 1 were registered together and both close
\* handlers have run: the key of order 1 is gone
C14_Witness ==
    /\ \E s \in CustChans, t \in CustChans :
         /\ s # t
         /\ sub[s].pc = "gone" /\ sub[t].pc = "gone"
         /\ sub[s].id = sub[t].id
         /\ inbox[s] # <<>> /\ inbox[t] # <<>>
    /\ DOMAIN orderSseClients = {}

\* the messages request r caused on connection c
MessagesOf(c, r) == {inbox[c][i] : i \in EventsOf(c, r)}

\* C15: an updateStatus with a status outside pending, ready, collected is
\* answered 400 and writes and publishes nothing; with an allowed status and
\* an unknown order id it is answered 404 and publishes nothing; otherwise
\* its UPDATE stores the given status, it calls broadcast once with a
\* status_updated event of that order and status, and (unless a query of its
\* fetch fails) it calls sendToOrder once with a snapshot that holds its
\* write, which is appended to the open connections of the order.
C15_UpdateStatusOutcomes ==
    /\ [](\A u \in Updaters :
            LET r == us[u].rid
                ok == us[u].status \in {"pending", "ready", "collected"}
            IN /\ us[u].pc # "idle" /\ ~ok =>
                    /\ us[u].pc = "done" /\ us[u].resp = 400
                    /\ published[r] = NoPublish /\ ~Mutated(r)
               /\ us[u].pc \notin {"idle", "update"} /\ ok /\ us[u].id \notin DOMAIN orders =>
                    /\ us[u].pc = "done" /\ us[u].resp = 404
                    /\ published[r] = NoPublish /\ ~Mutated(r)
               /\ us[u].pc = "done" /\ ok /\ us[u].id \in DOMAIN orders =>
                    /\ us[u].resp \in {200, 500}
                    /\ r \in orders[us[u].id].writers
                    /\ published[r].admin = 1
                    /\ us[u].resp = 200 => published[r].order = 1
                    /\ \A a \in AdminChans : \A msg \in MessagesOf(a, r) :
                          /\ msg.action = "status_updated"
                          /\ msg.order_id = us[u].id
                          /\ msg.status = us[u].status
                    /\ \A s \in CustChans : \A msg \in MessagesOf(s, r) :
                          /\ msg.data.order.id = us[u].id
                          /\ r \in msg.data.order.writers)
    /\ [][\A u \in Updaters :
            /\ us[u].pc = "update" /\ us'[u].pc = "bcast" =>
                  orders'[us[u].id].status = us[u].status
            /\ us[u].pc = "fetch2" /\ us'[u].resp = 200 =>
                  \A s \in CustChans :
                      s \in SubscribedTo(us[u].id) /\ IsOpen(s) =>
                          /\ Len(inbox'[s]) = Len(inbox[s]) + 1
                          /\ inbox'[s][Len(inbox'[s])].rid = us[u].rid]_vars

\* an updateStatus to ready on order 1 answered 200; the admin connection
\* holds its status_updated event and the customer connection its snapshot
C15_Witness ==
    \E u \in Updaters :
        /\ us[u].pc = "done" /\ us[u].resp = 200 /\ us[u].status = "ready"
        /\ orders[us[u].id].status = "ready"
        /\ \E a \in AdminChans : MessagesOf(a, us[u].rid) # {}
        /\ \E s \in CustChans : \E msg \in MessagesOf(s, us[u].rid) :
               msg.data.order.status = "ready"

\* the updateStatus request has stored ready on order id and has answered
SetToReady(id) ==
    \E u \in Updaters :
        /\ us[u].pc = "done" /\ us[u].id = id /\ us[u].status = "ready"
        /\ us[u].resp \in {200, 500}

\* C16: once an updateStatus has set an order to ready, a markCollected
\* with the stored order_no and customer_phone leaves the stored status
\* collected, calls broadcast once with action collected and that order id
\* and, unless a query of its fetch fails, calls sendToOrder once with the
\* snapshot it returns to the caller, whose status is collected.
C16_ReadyThenCollected ==
    \A m \in Collectors :
        LET r == mc[m].rid
            id == mc[m].id
        IN /\ mc[m].pc = "done"
           /\ id \in DOMAIN orders
           /\ SetToReady(id)
           /\ mc[m].order_no = orders[id].order_no
           /\ mc[m].phone = orders[id].customer_phone
           => /\ mc[m].resp \in {200, 500}
              /\ orders[id].status = "collected"
              /\ published[r].admin = 1
              /\ \A a \in AdminChans : \A msg \in MessagesOf(a, r) :
                    msg.action = "collected" /\ msg.order_id = id
              /\ mc[m].resp = 200 =>
                    /\ published[r].order = 1
                    /\ mc[m].body = <<Snapshot(orders[id], SelectItems(id))>>
                    /\ \A s \in CustChans : \A msg \in MessagesOf(s, r) :
                          msg.data = mc[m].body[1]

\* the scenario ran to its end with both observers connected: the admin
\* connection holds the collected event, the customer the collected snapshot
C16_Witness ==
    \E m \in Collectors :
        /\ mc[m].pc = "done" /\ mc[m].resp = 200 /\ SetToReady(mc[m].id)
        /\ mc[m].body[1].order.status = "collected"
        /\ \E a \in AdminChans : \E msg \in MessagesOf(a, mc[m].rid) :
               msg.action = "collected"
        /\ \E s \in CustChans : \E msg \in MessagesOf(s, mc[m].rid) :
               msg.data.order.status = "collected"

\* a request body the schema's rules reject: empty name, phone shorter than
\* 3, order_type present and not dine_in or takeaway, no items, or an item
\* whose quantity is below 1 or not a whole number
FailsValidation(body) ==
    \/ body.customer_name = ""
    \/ body.customer_phone = "55"
    \/ body.order_type \notin {<<>>, <<"dine_in">>, <<"takeaway">>}
    \/ body.items = <<>>
    \/ \E i \in 1..Len(body.items) :
          \/ body.items[i].quantity.num < body.items[i].quantity.den
          \/ body.items[i].quantity.num % body.items[i].quantity.den # 0

\* C17: a createOrder whose body fails validation is answered 400 in the
\* step that receives it: no transaction is opened, the counter, the orders,
\* the items and every connection are unchanged and nothing is published
\* for it; an order whose body has no order_type is stored as takeaway.
C17_InvalidBodyHasNoEffect ==
    /\ [](\A p \in Creators :
            cr[p].raw # <<>> =>
               /\ FailsValidation(cr[p].raw[1]) =>
                     /\ cr[p].pc = "done" /\ cr[p].resp = 400
                     /\ cr[p].failedAt = "validation"
                     /\ cr[p].pendOrder = <<>> /\ cr[p].pendItems = <<>>
                     /\ published[cr[p].rid] = NoPublish
                     /\ \A id \in DOMAIN orders : orders[id].rid # cr[p].rid
                     /\ \A d \in Dates : seqLock[d] # p
               /\ ~FailsValidation(cr[p].raw[1]) /\ cr[p].raw[1].order_type = <<>> =>
                     /\ cr[p].pendOrder # <<>> => cr[p].pendOrder[1].order_type = "takeaway"
                     /\ \A id \in DOMAIN orders :
                           orders[id].rid = cr[p].rid => orders[id].order_type = "takeaway")
    /\ [][\A p \in Creators :
            /\ cr'[p].rid # cr[p].rid
            /\ FailsValidation(cr'[p].raw[1])
            => UNCHANGED <<dbVars, obsVars, published>>]_vars

\* one request was rejected by the schema while another, sent without
\* order_type, was answered 201 and its order is stored
C17_Witness ==
    \E p, q \in Creators :
        /\ cr[p].pc = "done" /\ cr[p].raw # <<>> /\ cr[p].resp = 400
        /\ FailsValidation(cr[p].raw[1])
        /\ cr[p].raw[1].items # <<>>
        /\ cr[p].raw[1].items[Len(cr[p].raw[1].items)].quantity = Num(0, 1)
        /\ cr[q].pc = "done" /\ cr[q].resp = 201 /\ cr[q].raw # <<>>
        /\ cr[q].raw[1].order_type = <<>>
        /\ cr[q].orderId \in DOMAIN orders
        /\ orders[cr[q].orderId].order_type = "takeaway"

\* C18: a createOrder whose item loop finds no available menu row, at any
\* position, is answered with the not-found status 404 and leaves no row of
\* the order.
C18_MissingMenuItemIsNotFound ==
    \A p \in Creators :
        cr[p].pc = "done" /\ cr[p].failedAt = "menu" =>
            /\ cr[p].resp = 404
            /\ \A id \in DOMAIN orders : orders[id].rid # cr[p].rid
            /\ cr[p].orderId \notin DOMAIN order_items

\* C19: an admin stream request with no token or a token jwt.verify rejects
\* is answered 401, is never in the admin set and is written nothing; on a
\* connection opened with a valid token the first message is the connected
\* event and every later one is an orders_updated event of a created,
\* status_updated or collected action, or a ping.
C19_AdminStreamNeedsValidToken ==
    \A a \in AdminChans :
        /\ adm[a].pc # "idle" /\ adm[a].token # "good" =>
              /\ adm[a].pc = "done" /\ adm[a].resp = 401
              /\ a \notin sseClients
              /\ inbox[a] = <<>>
        /\ adm[a].pc # "idle" /\ adm[a].token = "good" =>
              /\ adm[a].resp = 0
              /\ inbox[a] # <<>>
              /\ inbox[a][1].event = "connected"
              /\ \A i \in 2..Len(inbox[a]) :
                    \/ inbox[a][i].event = "ping"
                    \/ /\ inbox[a][i].event = "orders_updated"
                       /\ inbox[a][i].action \in {"created", "status_updated", "collected"}
        /\ a \in sseClients => adm[a].token = "good"

\* one request was refused for its token while a connection opened with a
\* valid token has received connected, an order event and a ping
C19_Witness ==
    \E a, b \in AdminChans :
        /\ adm[a].token = "bad" /\ adm[a].resp = 401
        /\ adm[b].token = "good" /\ Len(inbox[b]) = 3
        /\ inbox[b][1].event = "connected"
        /\ {inbox[b][2].event, inbox[b][3].event} = {"orders_updated", "ping"}
        /\ published[us[<<"update", 1>>].rid].admin = 1

\* C20: every committed order_no is a date no later than today followed by a
\* sequence part of exactly three digits, and the first order of every date
\* that has orders carries 001.
C20_OrderNoHasThreeDigits ==
    /\ \A id \in DOMAIN orders :
          /\ orders[id].order_no.ymd \in 1..today
          /\ Len(orders[id].order_no.nnn) = 3
    /\ \A d \in Dates : OrdersOn(d) # {} => <<0, 0, 1>> \in SuffixesOn(d)

\* the message a step has appended to connection c
Appended(c) == inbox'[c][Len(inbox'[c])]

\* C21: a connection is written to only in three kinds of step: its own
\* subscribe step (the connected event, the initial snapshot), or a publish
\* step of a request while the connection is in the registry the publish
\* iterates; a message is appended, nothing is inserted earlier; a publish
\* leaves every connection that is not registered at that moment unchanged,
\* and a connection that never subscribed holds nothing.
C21_NoReplay ==
    /\ [](/\ \A a \in AdminChans : adm[a].pc = "idle" => inbox[a] = <<>>
          /\ \A s \in CustChans : sub[s].pc = "idle" => inbox[s] = <<>>)
    /\ [][\A c \in Chans :
            inbox'[c] # inbox[c] =>
               /\ Len(inbox'[c]) = Len(inbox[c]) + 1
               /\ SubSeq(inbox'[c], 1, Len(inbox[c])) = inbox[c]
               /\ \/ /\ c \in AdminChans /\ adm[c].pc = "idle"
                     /\ Appended(c).event = "connected"
                  \/ /\ c \in CustChans /\ sub[c].pc = "fetch2"
                     /\ Appended(c).rid = 0
                  \/ /\ Appended(c).rid \in Rids
                     /\ BroadcastStep(Appended(c).rid) \/ SendToOrderStep(Appended(c).rid)
                     /\ c \in PublishTargets(Appended(c).rid)]_vars

\* an admin connection registered after one event was published holds the
\* connected event and a later event but not the earlier one; a customer
\* connection registered after a snapshot was pushed holds only its initial
\* snapshot
C21_Witness ==
    /\ \E a \in AdminChans : \E r1, r2 \in Rids :
          /\ published[r1].admin = 1 /\ EventsOf(a, r1) = {}
          /\ Len(inbox[a]) = 2 /\ inbox[a][2].rid = r2
    /\ \E s \in CustChans : \E r \in Rids :
          /\ published[r].order = 1 /\ OrderOfRequest(r) = sub[s].id
          /\ sub[s].pc = "open" /\ ~sub[s].closed
          /\ Len(inbox[s]) = 1 /\ inbox[s][1].initial

\* C22: a customer connection whose initial fetch runs while its order id
\* has no committed row is written no initial snapshot and stays registered;
\* the creation that commits that id calls sendToOrder once before it answers
\* 201, and that call appends the stored order with all its items to every
\* open connection registered for the id; the created admin event carries
\* the order_id and order_no of the 201 body.
C22_EarlySubscriberGetsCreatedOrder ==
    /\ [](\A p \in Creators :
            cr[p].pc = "done" /\ cr[p].resp = 201 =>
               /\ published[cr[p].rid].order = 1
               /\ published[cr[p].rid].admin = 1
               /\ \A a \in AdminChans : \A msg \in MessagesOf(a, cr[p].rid) :
                     /\ msg.action = "created"
                     /\ msg.order_id = cr[p].body[1].order_id
                     /\ msg.order_no = cr[p].body[1].order_no
               /\ \A s \in CustChans : \A msg \in MessagesOf(s, cr[p].rid) :
                     /\ msg.data.order.id = cr[p].body[1].order_id
                     /\ msg.data.order.order_no = cr[p].body[1].order_no
                     /\ Complete(msg.data))
    /\ [][/\ \A s \in CustChans :
               /\ sub[s].pc = "fetch1" /\ sub'[s].pc # "fetch1"
               /\ sub[s].id \notin DOMAIN orders
               => /\ sub'[s].pc = "open"
                  /\ inbox'[s] = inbox[s]
                  /\ sub[s].id \in DOMAIN orderSseClients'
                  /\ s \in orderSseClients'[sub[s].id]
          /\ \A p \in Creators :
               cr[p].rid \in Rids /\ SendToOrderStep(cr[p].rid) =>
                  /\ cr'[p].resp = 201
                  /\ \A s \in CustChans :
                        /\ cr[p].orderId \in DOMAIN orderSseClients
                        /\ s \in orderSseClients[cr[p].orderId]
                        /\ IsOpen(s)
                        => inbox'[s] =
                              Append(inbox[s],
                                     [event |-> "message",
                                      data |-> Snapshot(orders[cr[p].orderId],
                                                        order_items[cr[p].orderId]),
                                      rid |-> cr[p].rid, initial |-> FALSE])]_vars

\* a customer connection subscribed to id 2 before order 2 was committed
\* holds exactly the snapshot pushed by the creation, with both items, and
\* the admin connection holds the created event
C22_Witness ==
    \E s \in CustChans : \E p \in Creators :
        /\ cr[p].pc = "done" /\ cr[p].resp = 201
        /\ sub[s].id = cr[p].body[1].order_id
        /\ sub[s].pc = "open" /\ ~sub[s].closed
        /\ Len(inbox[s]) = 1
        /\ inbox[s][1].rid = cr[p].rid /\ ~inbox[s][1].initial
        /\ Len(inbox[s][1].data.items) = 2
        /\ \E a \in AdminChans : \E msg \in MessagesOf(a, cr[p].rid) :
               msg.order_id = sub[s].id

\* the requests that have been answered with an error of the validation,
\* not-found, verification or invalid-state kind
Refused ==
    {us[u].rid : u \in {x \in Updaters : us[x].pc = "done" /\ us[x].resp \in {400, 404}}}
      \cup {mc[m].rid : m \in {x \in Collectors :
                                 mc[x].pc = "done" /\ mc[x].resp \in {400, 403, 404}}}
      \cup {cr[p].rid : p \in {x \in Creators :
                                 /\ cr[x].pc = "done" /\ cr[x].resp = 400
                                 /\ cr[x].failedAt \in {"validation", "menu"}}}

\* C23: a request has called broadcast or sendToOrder, and a connection
\* holds a message of it, only if its write is in the stored orders; a
\* request refused for validation, a missing row, a failed verification or
\* a wrong status has published nothing; a step of a read writes to no
\* connection.
C23_OnlyMutationsPublish ==
    /\ [](\A r \in Rids :
            /\ published[r].admin > 0 \/ published[r].order > 0 => Mutated(r)
            /\ \A c \in Chans : EventsOf(c, r) # {} => Mutated(r)
            /\ r \in Refused =>
                  /\ published[r] = NoPublish
                  /\ ~Mutated(r)
                  /\ \A c \in Chans : EventsOf(c, r) = {})
    /\ [][rd' # rd => UNCHANGED <<inbox, published, sseClients, orderSseClients>>]_vars

\* with both connections open, an updateStatus, a markCollected and a
\* creation were each refused, a read was answered, and the connections
\* hold nothing but their subscribe messages
C23_Witness ==
    /\ \E u \in Updaters : us[u].rid \in Refused
    /\ \E m \in Collectors : mc[m].rid \in Refused /\ mc[m].resp = 403
    /\ \E p \in Creators : cr[p].rid \in Refused /\ cr[p].failedAt = "menu"
    /\ rd.pc = "done"
    /\ \E a \in AdminChans : a \in sseClients /\ Len(inbox[a]) = 1
    /\ \E s \in CustChans : sub[s].pc = "open" /\ Len(inbox[s]) = 1

\* C24: whatever its body, a markCollected that has been answered or has
\* passed its checks got 404 when its order id has no row; 403 when the row
\* exists and the supplied order_no or phone differs from the stored one,
\* whatever the status; and 400 only when both match.
C24_ChecksInFixedOrder ==
    \A m \in Collectors :
        mc[m].pc \notin {"idle", "select"} =>
            /\ mc[m].id \notin DOMAIN orders => mc[m].resp = 404
            /\ mc[m].id \in DOMAIN orders /\ ~SuppliedMatch(m) => mc[m].resp = 403
            /\ mc[m].resp = 400 => mc[m].id \in DOMAIN orders /\ SuppliedMatch(m)

\* the body of a markCollected is one the schema of lines 181-184 rejects:
\* an order_no or a phone of fewer than three characters
Malformed(m) == mc[m].order_no = <<>> \/ mc[m].phone = "55"

\* C24 (amended): a markCollected whose body the schema rejects is answered
\* 400 before any order is read; one whose body passes has, once answered or
\* past its checks, got 404 when its order id has no row, 403 when the row
\* exists and the supplied order_no or phone differs, whatever the status,
\* and the 400 that names the status only when both match.
C24_ChecksInFixedOrderAfterSchema ==
    \A m \in Collectors :
        mc[m].pc \notin {"idle", "select"} =>
            /\ Malformed(m) =>
                  /\ mc[m].pc = "done" /\ mc[m].resp = 400
                  /\ mc[m].seen = "" /\ mc[m].before = ""
            /\ ~Malformed(m) =>
                  /\ mc[m].id \notin DOMAIN orders => mc[m].resp = 404 /\ mc[m].seen = ""
                  /\ mc[m].id \in DOMAIN orders /\ ~SuppliedMatch(m) => mc[m].resp = 403
                  /\ mc[m].resp = 400 => mc[m].id \in DOMAIN orders /\ SuppliedMatch(m)

\* a well-formed request with the stored phone and another order_no was
\* answered 403 on a collected order
C24_Witness ==
    \E m \in Collectors :
        /\ mc[m].pc = "done" /\ mc[m].resp = 403 /\ mc[m].seen = "collected"
        /\ ~Malformed(m)
        /\ mc[m].phone = orders[mc[m].id].customer_phone
        /\ mc[m].order_no # orders[mc[m].id].order_no

C26_StoredOrderIsFrozen ==
    [][\A id \in DOMAIN orders :
          /\ id \in DOMAIN orders'
          /\ [orders'[id] EXCEPT !.status = orders[id].status,
                                 !.writers = orders[id].writers] = orders[id]
          /\ id \in DOMAIN order_items'
          /\ order_items'[id] = order_items[id]]_vars

\* order 1 is collected and menu item 1 has been repriced or withdrawn,
\* another creation has been answered, and order 1 still has its number, its
\* total and its item rows at the old price
C26_Witness ==
    /\ menu_items[1] # [price |-> 500, is_available |-> TRUE]
    /\ orders[1].status = "collected"
    /\ [orders[1] EXCEPT !.status = "pending", !.writers = {1}] = FirstOrder
    /\ order_items[1] = FirstItems
    /\ order_items[1][1].unit_price = 500
    /\ \E p \in Creators : cr[p].pc = "done" /\ cr[p].rid # 1 /\ cr[p].resp \in {201, 400}
                           /\ cr[p].failedAt \in {"", "menu"}

\* C27: in the committed state, for every date the counter row exists
\* (last_seq is not 0) exactly when an order of that date is committed, and
\* last_seq is the number of committed orders of the date and the largest
\* suffix among them; a step that ends a creation with a rollback leaves
\* every counter row as it was.
C27_CounterMatchesCommittedOrders ==
    /\ [](\A d \in Dates :
            /\ daily_order_seq[d] > 0 <=> OrdersOn(d) # {}
            /\ daily_order_seq[d] = Cardinality(OrdersOn(d))
            /\ SuffixesOn(d) \subseteq
                  {PadStart(ToDigits(n), 3, 0) : n \in 1..daily_order_seq[d]}
            /\ daily_order_seq[d] > 0 =>
                  PadStart(ToDigits(daily_order_seq[d]), 3, 0) \in SuffixesOn(d))
    /\ [][\A p \in Creators :
            cr[p].pc \in InTx /\ cr'[p].pc = "done" /\ cr'[p].resp = 400
            => daily_order_seq' = daily_order_seq]_vars

\* an order is committed on each of two dates, each counter row holds 1,
\* and a creation that had taken a sequence number was rolled back
C27_Witness ==
    /\ daily_order_seq = [d \in Dates |-> 1]
    /\ \A d \in Dates : Cardinality(OrdersOn(d)) = 1
    /\ \E p \in Creators :
         cr[p].pc = "done" /\ cr[p].resp = 400 /\ cr[p].failedAt \in {"seq", "items", "total"}

\* C28: a step that writes a ping writes exactly one ping to every
\* connection that is in a registry and whose write does not fail, writes
\* nothing to any other connection, and leaves both registries and every
\* connection's state as they were: a connection whose write failed stays
\* registered.
C28_PingReachesAllAndReapsNone ==
    [][(\E c \in Chans : /\ Len(inbox'[c]) > Len(inbox[c])
                         /\ inbox'[c][Len(inbox'[c])].event = "ping")
       => /\ \A c \in Chans :
               IF (c \in sseClients \/ c \in RegisteredCust) /\ IsOpen(c)
               THEN /\ Len(inbox'[c]) = Len(inbox[c]) + 1
                    /\ SubSeq(inbox'[c], 1, Len(inbox[c])) = inbox[c]
                    /\ inbox'[c][Len(inbox'[c])].event = "ping"
               ELSE inbox'[c] = inbox[c]
          /\ UNCHANGED <<sseClients, orderSseClients, sub, adm>>]_vars

\* after a tick: a broken admin connection is still registered and has no
\* ping, the other admin connection and the customer connection have one
C28_Witness ==
    \E a, b \in AdminChans : \E s \in CustChans :
        /\ a \in sseClients /\ adm[a].closed /\ Pings(a) = 0
        /\ b \in sseClients /\ Pings(b) = 1
        /\ s \in RegisteredCust /\ Pings(s) = 1

\* C29: a creation has called broadcast or sendToOrder only when its 201
\* response has been sent.
C29_ResponseBeforePublication ==
    \A p \in Creators :
        /\ cr[p].rid \in Rids
        /\ published[cr[p].rid].admin > 0 \/ published[cr[p].rid].order > 0
        => cr[p].pc = "done" /\ cr[p].resp = 201

\* C30: a creation that ended because a statement of its transaction or its
\* COMMIT was refused by the store is answered 500.
C30_StoreFailureIs500 ==
    \A p \in Creators :
        cr[p].pc = "done" /\ cr[p].failedAt \in InTx => cr[p].resp = 500

\* ------------------------------------------------- reservations: claims
\* the bodies of POST /api/reservations: yesterday and today, times before,
\* inside and after the opening hours, a party of 2 and one of 7
ResDates == {0, 1}
ResTimes == {T0900, T1000, T1200, T1800, T2000}
ResBodies == [reservation_date : ResDates, reservation_time : ResTimes, pax : {2, 7}]
ResClocks == {T0000, T1300}

NextBook ==
    \E b \in {<<"book", 1>>} :
        \/ RsRequest(b, ResBodies, ResClocks)
        \/ RsCap(b)
        \/ RsInsert(b)
        \/ RsFail(b)

\* reservation requests handled one at a time
SpecBook == Init /\ [][NextBook]_vars

\* the reservations a slot holds
Held(d, t) == Cardinality(SlotRows(d, t))

\* C31: when reservation requests are handled one at a time, a request is
\* rejected as fully booked exactly when its slot already holds 5 or more
\* reservations, the rejected request inserts nothing, and no slot ever
\* holds more than 5 reservations.
C31_SequentialCapHolds ==
    /\ [](\A b \in Bookers :
            /\ rs[b].pc = "done" /\ rs[b].error = "fully_booked"
                  => rs[b].before >= MAX_RES_PER_SLOT /\ rs[b].id = 0
            /\ rs[b].pc = "done" /\ rs[b].resp = 201 => rs[b].before < MAX_RES_PER_SLOT
            /\ rs[b].pc = "insert" => Held(rs[b].date, rs[b].time) < MAX_RES_PER_SLOT)
    /\ [](\A d \in ResDates, t \in ResTimes : Held(d, t) <= MAX_RES_PER_SLOT)
    /\ [][\A b \in Bookers :
            rs'[b].pc = "done" /\ rs'[b].resp # 201 => reservations' = reservations]_vars

\* a slot holds 5 reservations and a sixth request for it was rejected as
\* fully booked
C31_Witness ==
    \E b \in Bookers :
        /\ rs[b].pc = "done" /\ rs[b].error = "fully_booked"
        /\ Held(rs[b].date, rs[b].time) = MAX_RES_PER_SLOT

\* one slot: today at 18:00, asked for at midnight
OneSlotBodies == {[reservation_date |-> 1, reservation_time |-> T1800, pax |-> 2]}

NextOverbook ==
    \E b \in Bookers :
        \/ RsRequest(b, OneSlotBodies, {T0000})
        \/ RsCap(b)
        \/ RsInsert(b)
        \/ RsFail(b)

\* concurrent reservation requests for one slot
SpecOverbook == Init /\ [][NextOverbook]_vars

\* C32: the capacity check is a read followed by a separate insert: every
\* request that read a count below 5 inserts its row whatever the slot holds
\* by then, so k concurrent requests on a slot of c < 5 rows leave c + k rows
\* (never more than 4 + k), which can exceed 5.
C32_CheckThenInsertOverbooks ==
    /\ [](\A b \in Bookers :
            /\ rs[b].pc = "insert" => rs[b].cnt < MAX_RES_PER_SLOT
            /\ Held(rs[b].date, rs[b].time) <= MAX_RES_PER_SLOT - 1 + NumBookers)
    /\ [][\A b \in Bookers :
            rs[b].pc = "insert" /\ rs'[b].pc = "done" /\ rs'[b].resp # 500
                => /\ rs'[b].resp = 201
                   /\ Len(reservations') = Len(reservations) + 1
                   /\ Held(rs[b].date, rs[b].time)' = Held(rs[b].date, rs[b].time) + 1]_vars

\* two requests read 4 rows in the slot, both inserted, and the slot holds 6
C32_Witness ==
    /\ \A b \in Bookers : rs[b].pc = "done" /\ rs[b].resp = 201 /\ rs[b].cnt = 4
    /\ Held(1, T1800) = MAX_RES_PER_SLOT + 1

NextSlots ==
    \/ \E b \in {<<"book", 1>>} :
          \/ RsRequest(b, OneSlotBodies, {T0000})
          \/ RsCap(b)
          \/ RsInsert(b)
          \/ RsFail(b)
    \/ PatchStatus(1..(MAX_RES_PER_SLOT + 1), {"cancelled", "completed", "done"})

\* reservation requests for one slot, one at a time, while the staff
\* cancels and completes reservations
SpecSlots == Init /\ [][NextSlots]_vars

\* the rows of a slot that are neither cancelled nor completed
Active(d, t) ==
    {i \in SlotRows(d, t) : reservations[i].status \notin {"cancelled", "completed"}}

\* C38: the capacity check counts every reservation of the slot whatever its
\* status: the count a request reads is the number of rows of its slot,
\* cancelled and completed ones included, so a slot of 5 rows rejects a new
\* request even when all 5 are cancelled.
C38_CancelledStillOccupies ==
    /\ [][\A b \in Bookers :
            rs[b].pc = "cap" /\ rs'[b].pc \in {"insert", "done"} /\ rs'[b].resp # 500
                => /\ rs'[b].cnt = Held(rs[b].date, rs[b].time)
                   /\ (rs'[b].error = "fully_booked"
                         <=> Held(rs[b].date, rs[b].time) >= MAX_RES_PER_SLOT)]_vars
    /\ [](\A d \in ResDates, t \in ResTimes : Held(d, t) <= MAX_RES_PER_SLOT)

\* a request was rejected as fully booked while all 5 reservations of its
\* slot are cancelled
C38_Witness ==
    \E b \in Bookers :
        /\ rs[b].pc = "done" /\ rs[b].error = "fully_booked"
        /\ Held(rs[b].date, rs[b].time) = MAX_RES_PER_SLOT
        /\ Active(rs[b].date, rs[b].time) = {}
        /\ \A i \in SlotRows(rs[b].date, rs[b].time) : reservations[i].status = "cancelled"

\* ------------------------------------------------- orders: later claims
\* C33: a creation answered with an error response has left no order of
\* its request in the store and has published no created event: once the
\* transaction has committed, the caller is answered 201, also when the
\* post-commit snapshot fetch fails.
C33_ErrorResponseMeansNoOrder ==
    \A p \in Creators :
        cr[p].pc = "done" /\ cr[p].resp # 201 /\ cr[p].rid \in Rids =>
            /\ \A id \in DOMAIN orders : orders[id].rid # cr[p].rid
            /\ published[cr[p].rid].admin = 0

\* the connections of the pool (db.js: one pg Pool shared by every handler)
PoolSize == 2

\* lines 199-308: a POST / handler holds its client from pool.connect to the
\* client.release of its finally block
HoldsClient(p) == cr[p].pc \in InTx \cup {"committed", "fetch1", "fetch2"}

\* pool.connect and pool.query are served while a connection is idle
PoolFree == Cardinality({p \in Creators : HoldsClient(p)}) < PoolSize

\* the steps of a POST / handler on its own client
ClientSteps(p) ==
    \/ SeqUpsert(p)
    \/ OrderInsert(p)
    \/ ItemStep(p)
    \/ TotalUpdate(p)
    \/ Commit(p)
    \/ CreateFail(p)
    \/ CreateBroadcast(p)

\* the steps of fetchOrderWithItems after the commit: each pool.query takes
\* an idle connection of the pool for the time of the query
PoolQuerySteps(p) ==
    /\ PoolFree
    /\ \/ CreateFetch1(p)
       \/ CreateFetch2(p)
       \/ CreatePostFail(p)

NextPool ==
    \/ \E p \in Creators : PoolFree /\ CreateRequest(p, SingleItemLists, MaxRequests)
    \/ \E p \in Creators : ClientSteps(p)
    \/ \E p \in Creators : PoolQuerySteps(p)

\* concurrent creators on a pool of PoolSize connections
SpecPool == Init /\ [][NextPool]_vars

\* a creator in flight whose next statement can run: one on its own client
\* (the upsert once the counter row is free), or a pool.query while the pool
\* has an idle connection
CanStep(p) ==
    \/ cr[p].pc \in {"seq", "items", "total", "committed"}
    \/ cr[p].pc = "begin" /\ seqLock[cr[p].ymd] = NoProc
    \/ cr[p].pc \in {"fetch1", "fetch2"} /\ PoolFree

\* C34: every creation completes and releases its connection: whenever
\* creations are in flight, one of them can run its next statement; a
\* creator never waits for a second pool connection that cannot come free
\* while it holds its transaction connection.
C34_CreatorNeverWaitsForever ==
    (\E p \in Creators : HoldsClient(p)) => \E p \in Creators : CanStep(p)

NextRace ==
    \/ \E u \in {<<"update", 1>>} : USRequest(u, {1}, {"ready"}) \/ USSteps(u)
    \/ \E m \in Collectors : MCRequest(m, {1}, {OrderNo(1, 1)}, Phones) \/ MCSteps(m)

\* order 1 is set to ready once, and concurrent markCollected requests with
\* the right order_no and phone arrive for it
SpecRace == InitStatus /\ [][NextRace]_vars

\* C35: of the concurrent markCollected requests with correct credentials on
\* one ready order at most one succeeds (the others are answered with the
\* invalid-state error) and at most one collected event is published.
C35_OneCollectWins ==
    /\ Cardinality({m \in Collectors : mc[m].resp = 200}) <= 1
    /\ Cardinality({m \in Collectors :
                      mc[m].rid \in Rids /\ published[mc[m].rid].admin > 0}) <= 1

\* no operation is in flight: every handler has answered, every subscription
\* has sent its initial snapshot, and no fetch of a snapshot was refused
AllSettled ==
    /\ \A u \in Updaters : us[u].pc \in {"idle", "done"} /\ us[u].resp # 500
    /\ \A m \in Collectors : mc[m].pc \in {"idle", "done"} /\ mc[m].resp # 500
    /\ \A p \in Creators : cr[p].pc \in {"idle", "done"}
    /\ \A s \in CustChans : sub[s].pc \notin {"fetch1", "fetch2"}

\* C36: once every operation in flight on an order has completed, the last
\* snapshot written to each connected customer observer of the order
\* carries the stored status of the order.
C36_LastSnapshotIsStored ==
    \A s \in CustChans :
        /\ AllSettled
        /\ sub[s].pc = "open" /\ ~sub[s].closed
        /\ sub[s].id \in DOMAIN orders
        /\ inbox[s] # <<>>
        => inbox[s][Len(inbox[s])].data.order.status = orders[sub[s].id].status

\* C37: no two stored orders share an order_no, on one date or across
\* dates: the transaction that commits an order holds the counter row of the
\* date in the order's prefix, and that row's new value is the order's
\* sequence part, also when midnight passed during the transaction.
C37_PrefixIsCounterDate ==
    /\ [](\A i \in DOMAIN orders, j \in DOMAIN orders :
            i # j => orders[i].order_no # orders[j].order_no)
    /\ [][\A p \in Creators :
            cr[p].pc = "total" /\ cr'[p].pc = "committed" =>
                LET no == orders'[cr[p].orderId].order_no
                IN /\ no.ymd \in Dates
                   /\ seqLock[no.ymd] = p
                   /\ daily_order_seq'[no.ymd] = daily_order_seq[no.ymd] + 1
                   /\ no.nnn = PadStart(ToDigits(daily_order_seq'[no.ymd]), 3, 0)]_vars

\* orders 001 of day 1 and 001 of day 2 are both stored, and the order of
\* day 1 was inserted after the one of day 2: its transaction began before
\* midnight and inserted and committed after it
C37_Witness ==
    /\ today = 2
    /\ \E i \in DOMAIN orders, j \in DOMAIN orders :
          /\ orders[i].order_no = OrderNo(1, 1)
          /\ orders[j].order_no = OrderNo(2, 1)
          /\ i > j

====
